---- MODULE Spec2Model ----
(***************************************************************************)
(* Heritage assets: tidying pipeline, differ and SCD2 reconciliation.      *)
(*                                                                         *)
(* Python values are encoded as follows.  A str is a sequence of           *)
(* one-character strings; an Optional[str] field holds None or Str(s);     *)
(* unique_id is always a plain str.  Dates are positive integers and a     *)
(* NULL date column (valid_until) is NoDate.                               *)
(***************************************************************************)
EXTENDS Integers, Sequences, FiniteSets, TLC

\* ------------------------------------------------------------------ bounds
NumIds == 2
MaxDate == 3
MaxBatch == 2
MaxAssets == 3
MaxEvents == 3
MaxRaws == 3

\* ------------------------------------------------------------ Python values
None == [t |-> "None"]
Str(s) == [t |-> "str", s |-> s]
NoDate == 0

IsStr(v) == v.t = "str"

\* truthiness of an Optional[str]
Truthy(v) == IsStr(v) /\ v.s # <<>>

\* x or ""
OrEmpty(v) == IF Truthy(v) THEN v ELSE Str(<<>>)

\* str(x) for x None or a str
PyStr(v) == IF IsStr(v) THEN v.s ELSE <<"N", "o", "n", "e">>

\* dict.get(key, default)
Get(raw, key, default) == IF key \in DOMAIN raw THEN raw[key] ELSE default

\* ------------------------------------------------------- character classes
Whitespace == {" ", "\t", "\n"}
Digits == {"0", "1", "2", "3", "4", "5", "6", "7", "8", "9"}

IsSpace(c) == c \in Whitespace
IsDigit(c) == c \in Digits

\* str.lstrip(chars) / str.rstrip(chars) / str.strip()
LStripChars(s, chars) ==
    SubSeq(s, CHOOSE i \in 1..(Len(s) + 1) :
                /\ \A j \in 1..(i - 1) : s[j] \in chars
                /\ (i = Len(s) + 1 \/ s[i] \notin chars),
           Len(s))

RStripChars(s, chars) ==
    SubSeq(s, 1, CHOOSE i \in 0..Len(s) :
                    /\ \A j \in (i + 1)..Len(s) : s[j] \in chars
                    /\ (i = 0 \/ s[i] \notin chars))

Strip(s) == LStripChars(RStripChars(s, Whitespace), Whitespace)

\* s.startswith(p)
StartsWith(s, p) == Len(s) >= Len(p) /\ SubSeq(s, 1, Len(p)) = p

\* re.sub(r"[\s\-]", "", s)
DropSpacesHyphens(s) == SelectSeq(s, LAMBDA c : ~(IsSpace(c) \/ c = "-"))

\* re.sub(r"^\+44", "0", s)
SubPlus44(s) ==
    IF StartsWith(s, <<"+", "4", "4">>) THEN <<"0">> \o SubSeq(s, 4, Len(s)) ELSE s

\* re.sub(r"^0044", "0", s)
Sub0044(s) ==
    IF StartsWith(s, <<"0", "0", "4", "4">>) THEN <<"0">> \o SubSeq(s, 5, Len(s)) ELSE s

\* re.sub(r"[^\d]", "", s)
KeepDigits(s) == SelectSeq(s, IsDigit)

\* a normalization that leaves the prefixes alone
normalize_phone_plain(phone) == KeepDigits(DropSpacesHyphens(phone))

\* normalize_phone(phone) for a str phone
normalize_phone(phone) ==
    IF phone = <<>> THEN <<>>
    ELSE KeepDigits(Sub0044(SubPlus44(DropSpacesHyphens(phone))))

\* ------------------------------------------------------- regular expressions
UpperChars == <<"A", "B", "C", "D", "E", "F", "G", "H", "I", "J", "K", "L", "M", "N", "O", "P", "Q", "R", "S", "T", "U", "V", "W", "X", "Y", "Z">>
LowerChars == <<"a", "b", "c", "d", "e", "f", "g", "h", "i", "j", "k", "l", "m", "n", "o", "p", "q", "r", "s", "t", "u", "v", "w", "x", "y", "z">>

IsAlpha(c) == \E i \in DOMAIN UpperChars : c = UpperChars[i] \/ c = LowerChars[i]
IsAlnum(c) == IsAlpha(c) \/ IsDigit(c)

\* str.upper()
UpperChar(c) ==
    IF \E i \in DOMAIN LowerChars : c = LowerChars[i]
    THEN UpperChars[CHOOSE i \in DOMAIN LowerChars : c = LowerChars[i]] ELSE c
Upper(s) == [i \in 1..Len(s) |-> UpperChar(s[i])]

\* the character at position i, or "" past either end
At(s, i) == IF i >= 1 /\ i <= Len(s) THEN s[i] ELSE ""

\* length of the run of whitespace starting at position p (\s*)
SpaceRun(s, p) ==
    IF p > Len(s) THEN 0
    ELSE (CHOOSE k \in p..(Len(s) + 1) :
            /\ \A j \in p..(k - 1) : IsSpace(At(s, j))
            /\ ~IsSpace(At(s, k))) - p

\* the least position at which f is not 0 with the value there, or <<0, 0>>
FirstMatch(f) ==
    LET starts == {i \in DOMAIN f : f[i] # 0}
    IN IF starts = {} THEN <<0, 0>>
       ELSE LET i == CHOOSE x \in starts : \A y \in starts : x <= y
            IN <<i, f[i]>>

\* UK_POSTCODE_PATTERN anchored at i with a letters and b optional characters,
\* the inward part starting at q: index of the last matched character, or 0
PostcodeInward(s, i, a, b, q) ==
    IF /\ \A j \in i..(i + a - 1) : IsAlpha(At(s, j))
       /\ IsDigit(At(s, i + a))
       /\ (b = 1 => IsAlnum(At(s, i + a + 1)))
       /\ IsDigit(At(s, q))
       /\ IsAlpha(At(s, q + 1))
       /\ IsAlpha(At(s, q + 2))
    THEN q + 2 ELSE 0

PostcodeEnd(s, i, a, b) ==
    PostcodeInward(s, i, a, b, i + a + 1 + b + SpaceRun(s, i + a + 1 + b))

\* alternatives of the pattern in the order the backtracking matcher tries them
PostcodeChoices == <<<<2, 1>>, <<2, 0>>, <<1, 1>>, <<1, 0>>>>

PostcodeMatchAt(s, i) ==
    FirstMatch([k \in DOMAIN PostcodeChoices |->
                    PostcodeEnd(s, i, PostcodeChoices[k][1], PostcodeChoices[k][2])])[2]

\* UK_POSTCODE_PATTERN.search(s) from position from: <<start, end>> or <<0, 0>>
PostcodeSearch(s, from) == FirstMatch([i \in from..Len(s) |-> PostcodeMatchAt(s, i)])

\* the last match of UK_POSTCODE_PATTERN.finditer(s)
RECURSIVE PostcodeLast(_, _, _)
PostcodeAfter(s, m, last) == IF m[1] = 0 THEN last ELSE PostcodeLast(s, m[2] + 1, m)

PostcodeLast(s, from, last) == PostcodeAfter(s, PostcodeSearch(s, from), last)

\* length of the (?:\+44|0044) at position i, or 0
PhonePrefixLen(s, i) ==
    IF i + 2 <= Len(s) /\ SubSeq(s, i, i + 2) = <<"+", "4", "4">> THEN 3
    ELSE IF i + 3 <= Len(s) /\ SubSeq(s, i, i + 3) = <<"0", "0", "4", "4">> THEN 4
    ELSE 0

\* the three digit groups of PHONE_PATTERN from position b on
PhoneGroups(s, c, b) ==
    LET s1 == b + c.n1
        d2 == b + c.n1 + c.s1
        s2 == b + c.n1 + c.s1 + c.n2
        d3 == b + c.n1 + c.s1 + c.n2 + c.s2
        e == b + c.n1 + c.s1 + c.n2 + c.s2 + c.n3 - 1
    IN IF /\ \A j \in b..(s1 - 1) : IsDigit(At(s, j))
          /\ (c.s1 = 1 => (IsSpace(At(s, s1)) \/ At(s, s1) = "-"))
          /\ \A j \in d2..(s2 - 1) : IsDigit(At(s, j))
          /\ (c.s2 = 1 => (IsSpace(At(s, s2)) \/ At(s, s2) = "-"))
          /\ \A j \in d3..e : IsDigit(At(s, j))
       THEN e ELSE 0

\* the optional 0 at position a, then the digit groups
PhoneTrunk(s, c, a) ==
    IF c.z = 1 => At(s, a) = "0" THEN PhoneGroups(s, c, a + c.z) ELSE 0

\* the optional prefix of length plen and the whitespace after it
PhonePrefix(s, i, c, plen) ==
    IF c.pre = 0 THEN PhoneTrunk(s, c, i)
    ELSE IF plen = 0 THEN 0
    ELSE PhoneTrunk(s, c, i + plen + SpaceRun(s, i + plen))

\* PHONE_PATTERN anchored at i for one choice of its optional parts and
\* repetition counts: index of the last matched character, or 0
PhoneEnd(s, i, c) == PhonePrefix(s, i, c, PhonePrefixLen(s, i))

PhoneChoices ==
    [pre : 0..1, z : 0..1, n1 : 2..5, s1 : 0..1, n2 : 3..4, s2 : 0..1, n3 : 3..4]

\* the matcher prefers the optional part present and the longer repetition,
\* leftmost choice first
PhoneRank(c) ==
    (((((c.pre * 2 + c.z) * 4 + (c.n1 - 2)) * 2 + c.s1) * 2 + (c.n2 - 3)) * 2 + c.s2) * 2
        + (c.n3 - 3)

\* the end of the preferred choice among those that match, or 0
PreferredEnd(f) ==
    LET ok == {c \in DOMAIN f : f[c] # 0}
    IN IF ok = {} THEN 0
       ELSE f[CHOOSE c \in ok : \A d \in ok : PhoneRank(d) <= PhoneRank(c)]

PhoneMatchAt(s, i) == PreferredEnd([c \in PhoneChoices |-> PhoneEnd(s, i, c)])

\* PHONE_PATTERN.search(s): <<start, end>> or <<0, 0>>
PhoneSearch(s) == FirstMatch([i \in 1..Len(s) |-> PhoneMatchAt(s, i)])

\* s.endswith(p)
EndsWith(s, p) == Len(s) >= Len(p) /\ SubSeq(s, Len(s) - Len(p) + 1, Len(s)) = p

\* needle in haystack
Contains(haystack, needle) ==
    \E i \in 1..(Len(haystack) - Len(needle) + 1) :
        SubSeq(haystack, i, i + Len(needle) - 1) = needle

\* s.split(",")
RECURSIVE SplitComma(_)
SplitComma(s) ==
    LET commas == {i \in 1..Len(s) : s[i] = ","}
    IN IF commas = {} THEN <<s>>
       ELSE LET i == CHOOSE x \in commas : \A y \in commas : x <= y
            IN <<SubSeq(s, 1, i - 1)>> \o SplitComma(SubSeq(s, i + 1, Len(s)))

\* ", ".join(parts)
RECURSIVE JoinComma(_)
JoinComma(parts) ==
    IF parts = <<>> THEN <<>>
    ELSE IF Len(parts) = 1 THEN parts[1]
    ELSE parts[1] \o <<",", " ">> \o JoinComma(Tail(parts))

CommaSpace == {",", " "}

\* no postcode in the address: a phone match counts when the address ends
\* with its text
ExtractTrailing(address, phone_match) ==
    IF /\ phone_match[1] # 0
       /\ EndsWith(address, SubSeq(address, phone_match[1], phone_match[2]))
    THEN <<RStripChars(SubSeq(address, 1, phone_match[1] - 1), CommaSpace),
           Str(normalize_phone(SubSeq(address, phone_match[1], phone_match[2])))>>
    ELSE <<address, None>>

\* the first phone match in the text after the postcode
ExtractAfter(address, postcode_end, after_postcode, first) ==
    IF first[1] # 0
    THEN <<RStripChars(SubSeq(address, 1, postcode_end), CommaSpace),
           Str(normalize_phone(SubSeq(after_postcode, first[1], first[2])))>>
    ELSE <<address, None>>

ExtractAround(address, postcode_match) ==
    IF postcode_match[1] = 0
    THEN ExtractTrailing(address, PhoneSearch(address))
    ELSE ExtractAfter(address, postcode_match[2],
                      SubSeq(address, postcode_match[2] + 1, Len(address)),
                      PhoneSearch(SubSeq(address, postcode_match[2] + 1, Len(address))))

\* extract_phone_from_address(address) -> <<clean_address, phone>>
extract_phone_from_address(address) ==
    IF address = <<>> THEN <<address, None>>
    ELSE ExtractAround(address, PostcodeLast(address, 1, <<0, 0>>))

county_indicators == <<
    <<"S", "H", "I", "R", "E">>,
    <<"Y", "O", "R", "K", "S", "H", "I", "R", "E">>,
    <<"L", "A", "N", "C", "A", "S", "H", "I", "R", "E">>,
    <<"C", "O", "R", "N", "W", "A", "L", "L">>,
    <<"D", "E", "V", "O", "N">>,
    <<"D", "O", "R", "S", "E", "T">>,
    <<"S", "U", "F", "F", "O", "L", "K">>,
    <<"N", "O", "R", "F", "O", "L", "K">>,
    <<"S", "U", "S", "S", "E", "X">>,
    <<"K", "E", "N", "T">>,
    <<"E", "S", "S", "E", "X">>,
    <<"S", "U", "R", "R", "E", "Y">>,
    <<"B", "E", "R", "K", "S", "H", "I", "R", "E">>,
    <<"H", "A", "M", "P", "S", "H", "I", "R", "E">>,
    <<"W", "I", "L", "T", "S", "H", "I", "R", "E">>,
    <<"S", "O", "M", "E", "R", "S", "E", "T">>,
    <<"G", "L", "O", "U", "C", "E", "S", "T", "E", "R", "S", "H", "I", "R", "E">>>>

EmptyAddress == [line1 |-> None, line2 |-> None, city |-> None, postcode |-> None]

\* [p.strip() for p in rest.split(",") if p.strip()]
StripAll(split) == [i \in 1..Len(split) |-> Strip(split[i])]

AddressParts(rest) == SelectSeq(StripAll(SplitComma(rest)), LAMBDA p : p # <<>>)

\* an assignment that takes the last part for the city whatever it holds
AssignPartsNoCounty(result, parts) ==
    IF Len(parts) = 0 THEN result
    ELSE IF Len(parts) = 1 THEN [result EXCEPT !.line1 = Str(parts[1])]
    ELSE IF Len(parts) = 2
         THEN [result EXCEPT !.line1 = Str(parts[1]), !.city = Str(parts[2])]
    ELSE [result EXCEPT !.line1 = Str(parts[1]),
                        !.line2 = Str(JoinComma(SubSeq(parts, 2, Len(parts) - 1))),
                        !.city = Str(parts[Len(parts)])]

\* the assignment of the parts to line1, line2 and city
AssignParts(result, parts) ==
    IF Len(parts) = 0 THEN result
    ELSE IF Len(parts) = 1 THEN [result EXCEPT !.line1 = Str(parts[1])]
    ELSE IF Len(parts) = 2
         THEN [result EXCEPT !.line1 = Str(parts[1]), !.city = Str(parts[2])]
    ELSE IF Len(parts) = 3
         THEN [result EXCEPT !.line1 = Str(parts[1]), !.line2 = Str(parts[2]),
                             !.city = Str(parts[3])]
    ELSE IF \E k \in DOMAIN county_indicators :
                Contains(Upper(parts[Len(parts)]), county_indicators[k])
         THEN [result EXCEPT !.line1 = Str(parts[1]),
                             !.line2 = Str(JoinComma(SubSeq(parts, 2, Len(parts) - 2))),
                             !.city = Str(parts[Len(parts) - 1])]
         ELSE [result EXCEPT !.line1 = Str(parts[1]),
                             !.line2 = Str(JoinComma(SubSeq(parts, 2, Len(parts) - 1))),
                             !.city = Str(parts[Len(parts)])]

\* the first postcode match is cut out of the address, the text before it is
\* split into parts
ParseAround(address, postcode_match) ==
    IF postcode_match[1] # 0
    THEN AssignParts(
            [EmptyAddress EXCEPT !.postcode =
                Str(Strip(Upper(SubSeq(address, postcode_match[1], postcode_match[2]))))],
            AddressParts(RStripChars(SubSeq(address, 1, postcode_match[1] - 1), CommaSpace)))
    ELSE AssignParts(EmptyAddress, AddressParts(address))

\* parse_address(address) -> [line1, line2, city, postcode]
parse_address(address) ==
    IF address = <<>> THEN EmptyAddress
    ELSE ParseAround(address, PostcodeSearch(address, 1))

\* ---------------------------------------------------------------- tidying
\* s if s else None
NonEmpty(s) == IF s # <<>> THEN Str(s) ELSE None

\* _clean_string(value) for value None or a str
clean_string(value) == IF ~IsStr(value) THEN None ELSE NonEmpty(Strip(value.s))

\* [normalize_phone(p) for p in candidates if p]
NormalizeAll(candidates) ==
    [i \in 1..Len(SelectSeq(candidates, Truthy)) |->
        normalize_phone(SelectSeq(candidates, Truthy)[i].s)]

\* the first normalized phone of at least 10 digits, else the first one
FirstPhone(normalized) ==
    IF normalized = <<>> THEN None
    ELSE IF \E i \in DOMAIN normalized : Len(normalized[i]) >= 10
         THEN Str(normalized[CHOOSE i \in DOMAIN normalized :
                    /\ Len(normalized[i]) >= 10
                    /\ \A j \in 1..(i - 1) : Len(normalized[j]) < 10])
         ELSE Str(normalized[1])

\* dedupe_phone(address_phone, telephone_field, access_phone)
dedupe_phone(address_phone, telephone_field, access_phone) ==
    FirstPhone(NormalizeAll(<<telephone_field, access_phone, address_phone>>))

\* the TidiedAsset built from the parsed address, the phone and the fax
TidiedAsset(raw, parsed_address, telephone, fax) ==
    [unique_id |-> PyStr(Get(raw, "uniqueID", Get(raw, "unique_id", Str(<<>>)))),
     owner_id |-> clean_string(Get(raw, "owner_id", None)),
     description |-> OrEmpty(clean_string(Get(raw, "description", None))),
     location |-> OrEmpty(clean_string(Get(raw, "location", None))),
     category |-> OrEmpty(clean_string(Get(raw, "category", None))),
     access_details |-> clean_string(Get(raw, "access_details", None)),
     contact |-> [contact_name |-> clean_string(Get(raw, "contact_name", None)),
                  address_line1 |-> parsed_address.line1,
                  address_line2 |-> parsed_address.line2,
                  address_city |-> parsed_address.city,
                  address_postcode |-> parsed_address.postcode,
                  telephone |-> IF Truthy(telephone) THEN telephone ELSE None,
                  fax |-> NonEmpty(fax),
                  email |-> clean_string(Get(raw, "email", None)),
                  website |-> clean_string(Get(raw, "website", None))]]

TidyExtracted(raw, extracted) ==
    TidiedAsset(raw,
                parse_address(extracted[1]),
                dedupe_phone(extracted[2], Get(raw, "telephone_no", None),
                             Get(raw, "access_phone", None)),
                normalize_phone(OrEmpty(Get(raw, "fax_no", Str(<<>>))).s))

\* tidy_raw_record(raw) -> TidiedAsset
tidy_raw_record(raw) ==
    TidyExtracted(raw,
        extract_phone_from_address(OrEmpty(Get(raw, "contact_address", Str(<<>>))).s))

\* ----------------------------------------------------------------- differ
simple_fields == <<"owner_id", "description", "location", "category", "access_details">>
contact_fields == <<"contact_name", "address_line1", "address_line2", "address_city",
                    "address_postcode", "telephone", "fax", "email", "website">>

\* a differ that reports every field, changed or not
compare_all_fields(old, new) == simple_fields \o contact_fields

\* a differ that leaves the contact fields out
compare_simple_fields(old, new) == SelectSeq(simple_fields, LAMBDA f : old[f] # new[f])

\* compare_tidied_assets(old, new) -> list of changed field names
compare_tidied_assets(old, new) ==
    SelectSeq(simple_fields, LAMBDA f : old[f] # new[f])
        \o SelectSeq(contact_fields, LAMBDA f : old.contact[f] # new.contact[f])

\* ------------------------------------------------------- model conversions
\* a conversion that stores no category
tidied_to_asset_uncategorized(tidied, valid_from) ==
    [unique_id |-> tidied.unique_id,
     owner_id |-> tidied.owner_id,
     description |-> tidied.description,
     location |-> tidied.location,
     category |-> Str(<<>>),
     access_details |-> tidied.access_details,
     contact_name |-> tidied.contact.contact_name,
     address_line1 |-> tidied.contact.address_line1,
     address_line2 |-> tidied.contact.address_line2,
     address_city |-> tidied.contact.address_city,
     address_postcode |-> tidied.contact.address_postcode,
     telephone |-> tidied.contact.telephone,
     fax |-> tidied.contact.fax,
     email |-> tidied.contact.email,
     website |-> tidied.contact.website,
     valid_from |-> valid_from,
     valid_until |-> NoDate]

\* tidied_to_asset(tidied, valid_from) -> Asset
tidied_to_asset(tidied, valid_from) ==
    [unique_id |-> tidied.unique_id,
     owner_id |-> tidied.owner_id,
     description |-> tidied.description,
     location |-> tidied.location,
     category |-> tidied.category,
     access_details |-> tidied.access_details,
     contact_name |-> tidied.contact.contact_name,
     address_line1 |-> tidied.contact.address_line1,
     address_line2 |-> tidied.contact.address_line2,
     address_city |-> tidied.contact.address_city,
     address_postcode |-> tidied.contact.address_postcode,
     telephone |-> tidied.contact.telephone,
     fax |-> tidied.contact.fax,
     email |-> tidied.contact.email,
     website |-> tidied.contact.website,
     valid_from |-> valid_from,
     valid_until |-> NoDate]

\* a conversion that reads a NULL owner_id back as the empty string
asset_to_tidied_blank(asset) ==
    [unique_id |-> asset.unique_id,
     owner_id |-> OrEmpty(asset.owner_id),
     description |-> asset.description,
     location |-> asset.location,
     category |-> asset.category,
     access_details |-> asset.access_details,
     contact |-> [contact_name |-> asset.contact_name,
                  address_line1 |-> asset.address_line1,
                  address_line2 |-> asset.address_line2,
                  address_city |-> asset.address_city,
                  address_postcode |-> asset.address_postcode,
                  telephone |-> asset.telephone,
                  fax |-> asset.fax,
                  email |-> asset.email,
                  website |-> asset.website]]

\* asset_to_tidied(asset) -> TidiedAsset
asset_to_tidied(asset) ==
    [unique_id |-> asset.unique_id,
     owner_id |-> asset.owner_id,
     description |-> asset.description,
     location |-> asset.location,
     category |-> asset.category,
     access_details |-> asset.access_details,
     contact |-> [contact_name |-> asset.contact_name,
                  address_line1 |-> asset.address_line1,
                  address_line2 |-> asset.address_line2,
                  address_city |-> asset.address_city,
                  address_postcode |-> asset.address_postcode,
                  telephone |-> asset.telephone,
                  fax |-> asset.fax,
                  email |-> asset.email,
                  website |-> asset.website]]

\* ------------------------------------------------------------------ inputs
DigitSeq == <<"1", "2", "3", "4", "5", "6", "7", "8", "9">>

\* entity ids as the listing page gives them: numeric strings
Ids == {<<DigitSeq[i]>> : i \in 1..NumIds}
Dates == 1..MaxDate

S_A == <<"A">>
S_R == <<"R">>
S_R_padded == <<" ", "R">>

\* a raw record with its id under the key "uniqueID" (CSV, scraper)
Record(id, category, telephone_no) ==
    [uniqueID |-> Str(id), category |-> Str(category), telephone_no |-> telephone_no]

\* a raw record with its id under the key "unique_id"
AltRecord(id, category) ==
    [unique_id |-> Str(id), category |-> Str(category), telephone_no |-> None]

FirstId == <<DigitSeq[1]>>

\* what the harvester yields: ids under "uniqueID", stripped cell texts
HarvestRecords ==
    {Record(id, S_A, None) : id \in Ids} \cup {Record(FirstId, S_R, None)}

\* what a row of a CSV file can hold: cell text that is not stripped
CsvRecords ==
    {Record(id, S_A, None) : id \in Ids} \cup {Record(FirstId, S_R_padded, None)}

HarvestBatches == UNION {[1..n -> HarvestRecords] : n \in 0..MaxBatch}

\* CSV files whose rows have the id under the other key or no id at all
OddBatches ==
    {<<AltRecord(FirstId, S_A), Record(FirstId, S_R_padded, None)>>,
     <<Record(FirstId, S_R_padded, None), AltRecord(FirstId, S_A)>>,
     <<Record(<<>>, S_A, None)>>,
     <<Record(<<>>, S_A, None), Record(FirstId, S_A, None)>>}

CsvBatches == UNION {[1..n -> CsvRecords] : n \in 0..MaxBatch} \cup OddBatches

\* the orders in which a Python set of ids can be iterated
Orders(S) ==
    {f \in [1..Cardinality(S) -> S] : \A i, j \in DOMAIN f : f[i] = f[j] => i = j}

\* ------------------------------------------------------------------- state
\* db: the committed tables; sess: the tables as the open session sees them
\* (db when no session is open); pc, run: where the running entry point is
\* and its locals; result: what the last entry point returned; today: the
\* day date.today() returns; scraper: the HMRCScraper object, its stats and
\* the calls of scrape_details that are under way
VARIABLES db, sess, pc, run, result, today, scraper

vars == <<db, sess, pc, run, result, today, scraper>>

\* the variables of the stored tables and of the entry points
dbvars == <<db, sess, pc, run, result, today>>

\* HMRCScraper.__init__: the stats and no call under way; calls counts the
\* calls of scrape_details made on the object
NewScraper ==
    [stats |-> [summaries_found |-> 0, details_fetched |-> 0, errors |-> 0],
     fetch |-> <<>>, results |-> {}, batch |-> "none", calls |-> 0]

\* run_incremental_scrape(skip_days=7), in days
skip_days == 7

\* the --skip-days values of the runs: the default and 0 (skip only the ids
\* scraped today)
SkipDays == {skip_days, 0}

\* HISTORICAL_FILES: the snapshot dates of the historical CSV files
HISTORICAL_FILES == <<1, 2, 3>>

\* assets and change_events in row order; raw_snapshots (unique on
\* snapshot_date, unique_id) and snapshot_metadata (unique on snapshot_date)
\* as sets of rows
EmptyDb ==
    [assets |-> <<>>, change_events |-> <<>>, snapshot_metadata |-> {}, raw_snapshots |-> {}]

ZeroStats == [added |-> 0, updated |-> 0, removed |-> 0, unchanged |-> 0]

NoRun == [entry |-> "none", date |-> NoDate, dry_run |-> FALSE, records |-> <<>>, file_idx |-> 0, stats |-> ZeroStats, days |-> 0, to_scrape |-> <<>>, i |-> 0, in_flight |-> <<>>, fetched |-> <<>>, errors |-> 0, tidied |-> <<>>, phone |-> <<>>, out |-> <<>>]

Init ==
    /\ db = EmptyDb
    /\ sess = EmptyDb
    /\ pc = "idle"
    /\ run = NoRun
    /\ result = "none"
    /\ today = 1
    /\ scraper = NewScraper

\* ------------------------------------------------------------- table rows
\* an event row written without its date
ChangeEventUndated(unique_id, change_type, change_date, changed_fields) ==
    [unique_id |-> unique_id, change_type |-> change_type, change_date |-> NoDate,
     changed_fields |-> changed_fields]

\* ChangeEvent(unique_id, change_type, change_date, changed_fields); the
\* changed_fields column holds the joined field names, NULL is <<>>
ChangeEvent(unique_id, change_type, change_date, changed_fields) ==
    [unique_id |-> unique_id, change_type |-> change_type, change_date |-> change_date,
     changed_fields |-> changed_fields]

SnapshotMetadata(snapshot_date, source, asset_count, stats) ==
    [snapshot_date |-> snapshot_date, source |-> source, asset_count |-> asset_count,
     added_count |-> stats.added, updated_count |-> stats.updated,
     removed_count |-> stats.removed]

RawSnapshot(snapshot_date, unique_id, raw_data) ==
    [snapshot_date |-> snapshot_date, unique_id |-> unique_id, raw_data |-> raw_data]

\* a date check that finds no row
NoSnapshotRun(t, d) == FALSE

\* session.query(SnapshotMetadata).filter_by(snapshot_date=d).first() is not None
HasSnapshotRun(t, d) == \E m \in t.snapshot_metadata : m.snapshot_date = d

\* get_raw_records(session, snapshot_date): the raw_data of the rows of the
\* date; the query returns them as a list in an order that is not fixed
get_raw_records(t, snapshot_date) ==
    {r.raw_data : r \in {x \in t.raw_snapshots : x.snapshot_date = snapshot_date}}

\* get_current_assets(session): unique_id -> index of its live row; the dict
\* comprehension lets a later live row of the same id replace an earlier one
RECURSIVE CurrentAssetsFrom(_, _, _)
CurrentAssetsFrom(assets, i, dict) ==
    IF i > Len(assets) THEN dict
    ELSE IF assets[i].valid_until = NoDate
         THEN CurrentAssetsFrom(assets, i + 1, (assets[i].unique_id :> i) @@ dict)
         ELSE CurrentAssetsFrom(assets, i + 1, dict)

\* a query that filters on the closed rows instead of the live ones
get_closed_assets(t) ==
    [u \in {t.assets[i].unique_id :
                i \in {j \in DOMAIN t.assets : t.assets[j].valid_until # NoDate}} |->
        CHOOSE i \in DOMAIN t.assets :
            /\ t.assets[i].unique_id = u
            /\ t.assets[i].valid_until # NoDate
            /\ \A j \in DOMAIN t.assets :
                    (t.assets[j].unique_id = u /\ t.assets[j].valid_until # NoDate) => j <= i]

get_current_assets(t) == CurrentAssetsFrom(t.assets, 1, <<>>)

\* the tidying loop of a pass: tidied_map[unique_id] = tidied for every
\* record whose tidied id is not empty, a later record replacing an earlier
\* (TidiedMapPutFirst: a tidying loop that keeps the earlier record)
RECURSIVE TidiedMapFrom(_, _, _)
TidiedMapPutFirst(records, i, tidied_map, tidied) ==
    IF tidied.unique_id # <<>>
    THEN TidiedMapFrom(records, i + 1, tidied_map @@ (tidied.unique_id :> tidied))
    ELSE TidiedMapFrom(records, i + 1, tidied_map)

TidiedMapPut(records, i, tidied_map, tidied) ==
    IF tidied.unique_id # <<>>
    THEN TidiedMapFrom(records, i + 1, (tidied.unique_id :> tidied) @@ tidied_map)
    ELSE TidiedMapFrom(records, i + 1, tidied_map)

TidiedMapFrom(records, i, tidied_map) ==
    IF i > Len(records) THEN tidied_map
    ELSE TidiedMapPut(records, i, tidied_map, tidy_raw_record(records[i]))

TidiedMap(records) == TidiedMapFrom(records, 1, <<>>)

\* ------------------------------------------------------------- reconciler
\* the ids a pass iterates over
PassIds(t, records) == DOMAIN get_current_assets(t) \cup DOMAIN TidiedMap(records)

\* what the three loops add to the session and the counts they keep:
\* added_seq, removed_seq and updated_seq are the ids each loop acts on, in
\* the order it meets them
LoopResults(t, current_assets, tidied_map, snapshot_date, changed_fields, added_seq, removed_seq, updated_seq, common_count) ==
    [assets |->
        [i \in 1..Len(t.assets) |->
            IF \/ \E k \in DOMAIN removed_seq : current_assets[removed_seq[k]] = i
               \/ \E k \in DOMAIN updated_seq : current_assets[updated_seq[k]] = i
            THEN [t.assets[i] EXCEPT !.valid_until = snapshot_date]
            ELSE t.assets[i]]
        \o [k \in DOMAIN added_seq |->
                tidied_to_asset(tidied_map[added_seq[k]], snapshot_date)]
        \o [k \in DOMAIN updated_seq |->
                tidied_to_asset(tidied_map[updated_seq[k]], snapshot_date)],
     change_events |->
        t.change_events
        \o [k \in DOMAIN added_seq |->
                ChangeEvent(added_seq[k], "added", snapshot_date, <<>>)]
        \o [k \in DOMAIN removed_seq |->
                ChangeEvent(removed_seq[k], "removed", snapshot_date, <<>>)]
        \o [k \in DOMAIN updated_seq |->
                ChangeEvent(updated_seq[k], "updated", snapshot_date,
                            changed_fields[updated_seq[k]])],
     stats |-> [added |-> Len(added_seq), updated |-> Len(updated_seq),
                removed |-> Len(removed_seq),
                unchanged |-> common_count - Len(updated_seq)]]

\* the changed fields of every common id
ChangedFields(t, current_assets, tidied_map) ==
    [u \in DOMAIN current_assets \cap DOMAIN tidied_map |->
        compare_tidied_assets(asset_to_tidied(t.assets[current_assets[u]]), tidied_map[u])]

\* a pass whose removals loop does nothing
LoopsNoRemovals(t, current_assets, tidied_map, snapshot_date, ord, changed_fields) ==
    LoopResults(t, current_assets, tidied_map, snapshot_date, changed_fields,
        SelectSeq(ord, LAMBDA u : u \in DOMAIN tidied_map \ DOMAIN current_assets),
        <<>>,
        SelectSeq(ord, LAMBDA u : /\ u \in DOMAIN current_assets \cap DOMAIN tidied_map
                                  /\ changed_fields[u] # <<>>),
        Cardinality(DOMAIN current_assets \cap DOMAIN tidied_map))

\* a pass that closes the old version of a changed id and opens none
LoopsNoNewVersion(t, current_assets, tidied_map, snapshot_date, ord, changed_fields) ==
    LoopResults(t, current_assets, tidied_map, snapshot_date, changed_fields,
        SelectSeq(ord, LAMBDA u : u \in DOMAIN tidied_map \ DOMAIN current_assets),
        SelectSeq(ord, LAMBDA u : \/ u \in DOMAIN current_assets \ DOMAIN tidied_map
                                  \/ /\ u \in DOMAIN current_assets \cap DOMAIN tidied_map
                                     /\ changed_fields[u] # <<>>),
        <<>>,
        Cardinality(DOMAIN current_assets \cap DOMAIN tidied_map))

\* a pass that decides its additions after its closings, against the live
\* state as the closings left it: a changed id is closed and then added
LoopsRereading(t, current_assets, tidied_map, snapshot_date, ord, changed_fields) ==
    LoopResults(t, current_assets, tidied_map, snapshot_date, changed_fields,
        SelectSeq(ord, LAMBDA u : \/ u \in DOMAIN tidied_map \ DOMAIN current_assets
                                  \/ /\ u \in DOMAIN current_assets \cap DOMAIN tidied_map
                                     /\ changed_fields[u] # <<>>),
        SelectSeq(ord, LAMBDA u : \/ u \in DOMAIN current_assets \ DOMAIN tidied_map
                                  \/ /\ u \in DOMAIN current_assets \cap DOMAIN tidied_map
                                     /\ changed_fields[u] # <<>>),
        <<>>,
        Cardinality(DOMAIN current_assets \cap DOMAIN tidied_map))

\* a pass whose additions loop stops after the first id it meets
LoopsFirstAdded(t, current_assets, tidied_map, snapshot_date, ord, changed_fields) ==
    LoopResults(t, current_assets, tidied_map, snapshot_date, changed_fields,
        SubSeq(SelectSeq(ord, LAMBDA u : u \in DOMAIN tidied_map \ DOMAIN current_assets), 1, 1),
        SelectSeq(ord, LAMBDA u : u \in DOMAIN current_assets \ DOMAIN tidied_map),
        SelectSeq(ord, LAMBDA u : /\ u \in DOMAIN current_assets \cap DOMAIN tidied_map
                                  /\ changed_fields[u] # <<>>),
        Cardinality(DOMAIN current_assets \cap DOMAIN tidied_map))

\* added_ids, removed_ids and common_ids, each in the order ord iterates it
Loops(t, current_assets, tidied_map, snapshot_date, ord, changed_fields) ==
    LoopResults(t, current_assets, tidied_map, snapshot_date, changed_fields,
        SelectSeq(ord, LAMBDA u : u \in DOMAIN tidied_map \ DOMAIN current_assets),
        SelectSeq(ord, LAMBDA u : u \in DOMAIN current_assets \ DOMAIN tidied_map),
        SelectSeq(ord, LAMBDA u : /\ u \in DOMAIN current_assets \cap DOMAIN tidied_map
                                  /\ changed_fields[u] # <<>>),
        Cardinality(DOMAIN current_assets \cap DOMAIN tidied_map))

ChangesFrom(t, current_assets, tidied_map, snapshot_date, ord) ==
    Loops(t, current_assets, tidied_map, snapshot_date, ord,
          ChangedFields(t, current_assets, tidied_map))

\* the additions, removals and updates loops of a pass over the tables t;
\* ord is the order in which the id sets are iterated
ApplyChanges(t, records, snapshot_date, ord) ==
    ChangesFrom(t, get_current_assets(t), TidiedMap(records), snapshot_date, ord)

\* a preview that counts every common id as updated without diffing it
DryRunStatsNoDiff(current_assets, tidied_map, changed_fields) ==
    [added |-> Cardinality(DOMAIN tidied_map \ DOMAIN current_assets),
     updated |-> Cardinality(DOMAIN changed_fields),
     removed |-> Cardinality(DOMAIN current_assets \ DOMAIN tidied_map),
     unchanged |-> 0]

\* the dry_run branch of process_snapshot: counts only
DryRunStats(current_assets, tidied_map, changed_fields) ==
    [added |-> Cardinality(DOMAIN tidied_map \ DOMAIN current_assets),
     updated |-> Cardinality({u \in DOMAIN changed_fields : changed_fields[u] # <<>>}),
     removed |-> Cardinality(DOMAIN current_assets \ DOMAIN tidied_map),
     unchanged |-> Cardinality({u \in DOMAIN changed_fields : changed_fields[u] = <<>>})]

DryRunFrom(t, current_assets, tidied_map) ==
    DryRunStats(current_assets, tidied_map, ChangedFields(t, current_assets, tidied_map))

DryRunCounts(t, records) == DryRunFrom(t, get_current_assets(t), TidiedMap(records))

\* a pass that replaces the event log by the events of its own
AppliedFreshLog(t, changes) ==
    [tables |-> [t EXCEPT !.assets = changes.assets,
                          !.change_events =
                              SubSeq(changes.change_events, Len(t.change_events) + 1,
                                     Len(changes.change_events))],
     stats |-> changes.stats]

\* the tables with the Asset rows and ChangeEvents of a pass, and its stats
Applied(t, changes) ==
    [tables |-> [t EXCEPT !.assets = changes.assets,
                          !.change_events = changes.change_events],
     stats |-> changes.stats]

\* the stats of the import and of the scrape have no unchanged count
AppliedCounted(t, changes) ==
    [tables |-> [t EXCEPT !.assets = changes.assets,
                          !.change_events = changes.change_events],
     stats |-> [added |-> changes.stats.added, updated |-> changes.stats.updated,
                removed |-> changes.stats.removed]]

\* scripts/process_snapshot.py process_snapshot(session, snapshot_date, dry_run)
\* with records the list get_raw_records returned: the tables and the stats
process_snapshot(t, records, snapshot_date, dry_run, ord) ==
    IF records = <<>> THEN [tables |-> t, stats |-> ZeroStats]
    ELSE IF dry_run THEN [tables |-> t, stats |-> DryRunCounts(t, records)]
    ELSE Applied(t, ApplyChanges(t, records, snapshot_date, ord))

\* scripts/import_historical.py process_snapshot(records, snapshot_date, session)
import_process_snapshot(t, records, snapshot_date, ord) ==
    AppliedCounted(t, ApplyChanges(t, records, snapshot_date, ord))

\* the reconciliation inlined in run_scrape_and_update
scrape_update(t, records, snapshot_date, ord) ==
    AppliedCounted(t, ApplyChanges(t, records, snapshot_date, ord))

\* the id under which a raw record is stored: str(raw.get("uniqueID", ""))
RawKey(raw) == PyStr(Get(raw, "uniqueID", Str(<<>>)))

HasRaw(t, snapshot_date, unique_id) ==
    \E r \in t.raw_snapshots : r.snapshot_date = snapshot_date /\ r.unique_id = unique_id

\* store_raw_snapshot(records, snapshot_date, session): the records it adds
\* to the session; one whose (date, id) is already stored is skipped
store_raw_snapshot(t, records, snapshot_date) ==
    SelectSeq(records, LAMBDA raw : RawKey(raw) # <<>> /\ ~HasRaw(t, snapshot_date, RawKey(raw)))

\* the records run_scrape_and_update adds to the session as raw snapshots
scrape_store_raw(records) == SelectSeq(records, LAMBDA raw : RawKey(raw) # <<>>)

\* session.flush() of the added raw snapshots raises IntegrityError when two
\* rows share (snapshot_date, unique_id)
FlushRaises(t, added, snapshot_date) ==
    \/ \E i \in 1..Len(added) : HasRaw(t, snapshot_date, RawKey(added[i]))
    \/ \E i, j \in 1..Len(added) : i # j /\ RawKey(added[i]) = RawKey(added[j])

WithRaw(t, added, snapshot_date) ==
    [t EXCEPT !.raw_snapshots =
        @ \cup {RawSnapshot(snapshot_date, RawKey(added[i]), added[i]) : i \in 1..Len(added)}]

WithMetadata(t, row) == [t EXCEPT !.snapshot_metadata = @ \cup {row}]

\* the table sizes the model explores
WithinBounds(t) ==
    /\ Len(t.assets) <= MaxAssets
    /\ Len(t.change_events) <= MaxEvents
    /\ Cardinality(t.raw_snapshots) <= MaxRaws

\* ----------------------------------------------------------------- actions
\* a session that is left with an exception but keeps what it added
AbortKeeping(kind) ==
    /\ db' = sess
    /\ pc' = "idle"
    /\ run' = NoRun
    /\ result' = kind
    /\ UNCHANGED <<sess, today, scraper>>

\* get_session(): leaving the block with an exception or an exit rolls the
\* session back
Abort(kind) ==
    /\ sess' = db
    /\ pc' = "idle"
    /\ run' = NoRun
    /\ result' = kind
    /\ UNCHANGED <<db, today, scraper>>

\* an entry point returns before it has added anything to its session
Return(kind) ==
    /\ result' = kind
    /\ UNCHANGED <<db, sess, pc, run, today, scraper>>

\* get_recently_scraped_ids(session, days) as of the day d: the ids with a raw
\* snapshot dated on or after the cutoff d - days
get_recently_scraped_ids(t, d, days) ==
    {r.unique_id : r \in {x \in t.raw_snapshots : x.snapshot_date >= d - days}}

\* run_incremental_scrape: one record of an id not scraped recently is
\* fetched and saved under today's date in a session of its own
SaveRawSnapshot(raw, days) ==
    /\ pc = "idle"
    /\ RawKey(raw) \notin get_recently_scraped_ids(db, today, days)
    /\ IF FlushRaises(db, <<raw>>, today)
       THEN Return("error")
       ELSE /\ WithinBounds(WithRaw(db, <<raw>>, today))
            /\ db' = WithRaw(db, <<raw>>, today)
            /\ sess' = db'
            /\ result' = "saved"
            /\ UNCHANGED <<pc, run, today, scraper>>

\* the session of an entry point after its pass, before the commit
Staged(entry, d, dry_run, records, tables, stats) ==
    /\ WithinBounds(tables)
    /\ sess' = tables
    /\ run' = [NoRun EXCEPT !.entry = entry, !.date = d, !.dry_run = dry_run,
                            !.records = records, !.stats = stats]
    /\ pc' = "commit"
    /\ result' = "running"
    /\ UNCHANGED <<db, today, scraper>>

\* process_snapshot.py main after process_snapshot returned: the metadata row
ScriptStaged(d, dry_run, records, done) ==
    Staged("script", d, dry_run, records,
           IF dry_run THEN done.tables
           ELSE WithMetadata(done.tables,
                             SnapshotMetadata(d, "scrape", Len(records), done.stats)),
           done.stats)

\* process_snapshot.py main: the date check, process_snapshot and the
\* metadata row, all in one session that is yet to be committed
ScriptPass(d, dry_run) ==
    /\ pc = "idle"
    /\ IF HasSnapshotRun(db, d) /\ ~dry_run
       THEN Return("already_processed")
       ELSE \E records \in Orders(get_raw_records(db, d)) :
            \E ord \in Orders(PassIds(db, records)) :
                ScriptStaged(d, dry_run, records,
                             process_snapshot(db, records, d, dry_run, ord))

\* run_scrape_and_update after the reconciliation: the metadata row
ScrapeStaged(records, done) ==
    Staged("scrape", today, FALSE, records,
           WithMetadata(done.tables,
                        SnapshotMetadata(today, "scrape", Len(records), done.stats)),
           done.stats)

\* run_scrape_and_update: the scraped records, the check of today's date, the
\* raw snapshots, the reconciliation and the metadata row, yet to be committed
ScrapePass(records) ==
    /\ pc = "idle"
    /\ IF records = <<>> THEN Return("no_records")
       ELSE IF HasSnapshotRun(db, today) THEN Return("already_scraped")
       ELSE IF FlushRaises(db, scrape_store_raw(records), today) THEN Return("exception")
       ELSE \E ord \in Orders(PassIds(db, records)) :
                ScrapeStaged(records,
                    scrape_update(WithRaw(db, scrape_store_raw(records), today),
                                  records, today, ord))

\* import_historical_data: open the one session of the whole import
ImportBegin ==
    /\ pc = "idle"
    /\ sess' = db
    /\ pc' = "next_file"
    /\ run' = [NoRun EXCEPT !.entry = "import", !.file_idx = 1]
    /\ result' = "running"
    /\ UNCHANGED <<db, today, scraper>>

\* where the loop over HISTORICAL_FILES goes after the file at file_idx
NextFile(file_idx) == IF file_idx = Len(HISTORICAL_FILES) THEN "commit" ELSE "next_file"

\* import_historical_data: the file is missing or its date is imported
ImportSkipped ==
    /\ run' = [run EXCEPT !.file_idx = @ + 1, !.date = NoDate,
                          !.records = <<>>, !.stats = ZeroStats]
    /\ pc' = NextFile(run.file_idx)
    /\ UNCHANGED <<db, sess, result, today, scraper>>

\* import_historical_data after process_snapshot returned: the metadata row
ImportStaged(d, records, done) ==
    /\ WithinBounds(done.tables)
    /\ sess' = WithMetadata(done.tables,
                            SnapshotMetadata(d, "import", Len(records), done.stats))
    /\ run' = [run EXCEPT !.file_idx = @ + 1, !.date = d,
                          !.records = records, !.stats = done.stats]
    /\ pc' = NextFile(run.file_idx)
    /\ UNCHANGED <<db, result, today, scraper>>

\* import_historical_data: one iteration of the loop over HISTORICAL_FILES for
\* the file of date d (file missing or date already imported: continue; else
\* load, store raw, process, record metadata)
ImportDate(d, exists, records) ==
    IF ~exists \/ HasSnapshotRun(sess, d) THEN ImportSkipped
    ELSE IF FlushRaises(sess, store_raw_snapshot(sess, records, d), d)
    THEN Abort("exception")
    ELSE \E ord \in Orders(PassIds(sess, records)) :
            ImportStaged(d, records,
                import_process_snapshot(
                    WithRaw(sess, store_raw_snapshot(sess, records, d), d),
                    records, d, ord))

ImportFile(exists, records) ==
    /\ pc = "next_file"
    /\ ImportDate(HISTORICAL_FILES[run.file_idx], exists, records)

\* get_session(): session.commit() on leaving the block
Commit ==
    /\ pc = "commit"
    /\ db' = sess
    /\ pc' = "idle"
    /\ result' = "ok"
    /\ run' = NoRun
    /\ UNCHANGED <<sess, today, scraper>>

\* an exception, an exit or a kill anywhere before the commit
Interrupt ==
    /\ pc # "idle"
    /\ Abort("interrupted")

\* the clock moves on to the next day
Tick ==
    /\ pc = "idle"
    /\ today < MaxDate
    /\ today' = today + 1
    /\ UNCHANGED <<db, sess, pc, run, result, scraper>>

\* the incremental harvest and the process_snapshot script
NextScript ==
    \/ \E raw \in HarvestRecords, days \in SkipDays : SaveRawSnapshot(raw, days)
    \/ \E d \in Dates, dry_run \in BOOLEAN : ScriptPass(d, dry_run)
    \/ Tick
    \/ Commit
    \/ Interrupt

\* the scheduled scrape
NextScrape ==
    \/ \E records \in HarvestBatches : ScrapePass(records)
    \/ Tick
    \/ Commit
    \/ Interrupt

\* the historical import
NextImport ==
    \/ ImportBegin
    \/ \E exists \in BOOLEAN, records \in CsvBatches : ImportFile(exists, records)
    \/ Commit
    \/ Interrupt

Next == NextScript \/ NextScrape \/ NextImport

Spec == Init /\ [][Next]_vars

SpecScript == Init /\ [][NextScript]_vars

SpecScrape == Init /\ [][NextScrape]_vars

SpecImport == Init /\ [][NextImport]_vars

\* ------------------------------------------------------------ properties
\* the rows of one entity, and its live rows
RowsOf(t, u) == {i \in DOMAIN t.assets : t.assets[i].unique_id = u}
LiveRowsOf(t, u) == {i \in RowsOf(t, u) : t.assets[i].valid_until = NoDate}
EntityIds(t) == {t.assets[i].unique_id : i \in DOMAIN t.assets}
LiveIds(t) == {u \in EntityIds(t) : LiveRowsOf(t, u) # {}}

\* a pass has run in the open session and is not yet committed
PassStaged == pc \in {"commit", "next_file"} /\ run.date # NoDate /\ ~run.dry_run

\* C1: in the stored tables and in every open session, every entity id has at
\* most one Asset row with valid_until NULL, also after a batch that holds
\* several records of one id
AtMostOneLive ==
    \A t \in {db, sess} : \A u \in EntityIds(t) : Cardinality(LiveRowsOf(t, u)) <= 1

\* a pass whose batch holds two records of one id has opened a version of it
DuplicateBatchStaged ==
    /\ PassStaged
    /\ Len(run.records) = 2
    /\ Cardinality(DOMAIN TidiedMap(run.records)) = 1
    /\ \E u \in DOMAIN TidiedMap(run.records) : LiveRowsOf(sess, u) # {}

\* the row covers the day d: valid_from <= d < valid_until, NULL unbounded
Covers(row, d) ==
    row.valid_from <= d /\ (row.valid_until = NoDate \/ d < row.valid_until)

\* C2: the intervals [valid_from, valid_until) of the versions of one entity
\* never overlap pairwise, whatever the order of the snapshot dates
IntervalsDisjoint ==
    \A u \in EntityIds(db) : \A i, j \in RowsOf(db, u) :
        i # j => ~\E d \in 1..(MaxDate + 1) : Covers(db.assets[i], d) /\ Covers(db.assets[j], d)

\* three versions of one entity are stored, the dates of the passes not in
\* increasing order
OutOfOrderHistory ==
    \E u \in EntityIds(db) :
        /\ Cardinality(RowsOf(db, u)) >= 2
        /\ \E i, j \in RowsOf(db, u) : i < j /\ db.assets[j].valid_from < db.assets[i].valid_from

\* what the tables hold for the snapshot date d
DatedRows(t, d) ==
    [metadata |-> {m \in t.snapshot_metadata : m.snapshot_date = d},
     raw |-> {r \in t.raw_snapshots : r.snapshot_date = d},
     events |-> SelectSeq(t.change_events, LAMBDA e : e.change_date = d),
     opened |-> SelectSeq(t.assets, LAMBDA a : a.valid_from = d),
     closed |-> Cardinality({i \in DOMAIN t.assets : t.assets[i].valid_until = d})]

\* C3: a commit of a pass leaves what is stored for every date that already
\* has a SnapshotMetadata row as it was: no Asset row opened or closed at that
\* date, no ChangeEvent, no RawSnapshot, the metadata row unchanged
ProcessedDateUntouched ==
    [][pc = "commit" =>
        \A d \in Dates : DatedRows(db, d).metadata # {} =>
            [DatedRows(db', d) EXCEPT !.opened = Len(@)]
                = [DatedRows(db, d) EXCEPT !.opened = Len(@)]]_vars

\* the script has refused a date that has a SnapshotMetadata row
ScriptRefused == result = "already_processed" /\ db.snapshot_metadata # {}

\* a step of the import that reconciles one file (ImportStaged)
ImportPassStep == pc = "next_file" /\ run'.entry = "import" /\ run'.date # NoDate

\* C4: a reconciliation pass whose batch has zero records closes no live
\* version, opens no version and emits no ChangeEvent
EmptyBatchChangesNothing ==
    [][(ImportPassStep /\ run'.records = <<>>) =>
            (sess'.assets = sess.assets /\ sess'.change_events = sess.change_events)]_vars

\* an import pass of an empty file has staged removals
EmptyImportRemoves ==
    /\ run.entry = "import"
    /\ run.date # NoDate
    /\ run.records = <<>>
    /\ run.stats.removed > 0

\* C5: a pass with zero input records writes no SnapshotMetadata row for its
\* date
EmptyPassWritesNoMetadata ==
    (PassStaged /\ run.entry = "script" /\ run.records = <<>>) => ~HasSnapshotRun(sess, run.date)

\* the script has recorded a date whose pass had no raw records
EmptyDateRecorded ==
    /\ result = "ok"
    /\ \E m \in db.snapshot_metadata : m.source = "scrape" /\ m.asset_count = 0

\* C6: the additions, closings, change events and metadata row of a pass are
\* committed together or not at all: while an entry point runs, a step either
\* leaves the stored tables as they are or is the commit that stores all the
\* session holds, and an interruption leaves them as they are
PassAtomic ==
    [][/\ pc # "idle" => (db' = db \/ (pc = "commit" /\ result' = "ok" /\ db' = sess))
       /\ result' = "interrupted" => db' = db]_vars

\* a pass with versions, events and a metadata row in its session, which an
\* interruption discards
InterruptedPass ==
    /\ result = "interrupted"
    /\ db.snapshot_metadata # {}
    /\ \E r \in db.raw_snapshots : ~HasSnapshotRun(db, r.snapshot_date)

\* --------------------------------------------------- the transitions of a pass
\* the process_snapshot script has reconciled a batch in its session: db is
\* the state at the start of the pass, sess the state it is about to commit
ScriptPassStaged == pc = "commit" /\ run.entry = "script" /\ ~run.dry_run /\ run.records # <<>>

\* the tidied record of the batch for the id u
BatchRecord(u) == TidiedMap(run.records)[u]
BatchIds == DOMAIN TidiedMap(run.records)

\* the Asset rows and ChangeEvents the pass has added for the id u
NewRows(u) == {i \in (Len(db.assets) + 1)..Len(sess.assets) : sess.assets[i].unique_id = u}
NewEvents(u) ==
    {i \in (Len(db.change_events) + 1)..Len(sess.change_events) :
        sess.change_events[i].unique_id = u}

\* the row holds the fields of the tidied record
HoldsFields(row, tidied) ==
    /\ row.unique_id = tidied.unique_id
    /\ \A k \in DOMAIN simple_fields : row[simple_fields[k]] = tidied[simple_fields[k]]
    /\ \A k \in DOMAIN contact_fields :
            row[contact_fields[k]] = tidied.contact[contact_fields[k]]

\* the names of the compared fields in which two rows differ, in list order
RowDiff(old, new) == SelectSeq(simple_fields \o contact_fields, LAMBDA f : old[f] # new[f])

\* the live row of u at the start of the pass holds the fields of the batch
StartSame(u) == \A i \in LiveRowsOf(db, u) : HoldsFields(db.assets[i], BatchRecord(u))

AddedIds == {u \in BatchIds : LiveRowsOf(db, u) = {}}
RemovedIds == LiveIds(db) \ BatchIds
UpdatedIds == {u \in LiveIds(db) \cap BatchIds : ~StartSame(u)}
UnchangedIds == {u \in LiveIds(db) \cap BatchIds : StartSame(u)}

\* C7: an id of the batch with no live version at the start of the pass gets
\* exactly one new version [snapshot_date, null) with the tidied fields and
\* exactly one added event of that date without changed_fields, and is
\* counted once in added
AddedTransition ==
    ScriptPassStaged =>
        /\ \A u \in AddedIds :
            /\ Cardinality(NewRows(u)) = 1
            /\ \A i \in NewRows(u) :
                /\ sess.assets[i].valid_from = run.date
                /\ sess.assets[i].valid_until = NoDate
                /\ HoldsFields(sess.assets[i], BatchRecord(u))
            /\ Cardinality(NewEvents(u)) = 1
            /\ \A i \in NewEvents(u) :
                sess.change_events[i] =
                    [unique_id |-> u, change_type |-> "added", change_date |-> run.date,
                     changed_fields |-> <<>>]
        /\ run.stats.added = Cardinality(AddedIds)

AddedStaged == ScriptPassStaged /\ AddedIds # {} /\ LiveIds(db) # {}

\* C8: a live id missing from the batch has its live version closed at
\* snapshot_date, gets no new version, has no live version afterwards and
\* gets exactly one removed event
RemovedTransition ==
    ScriptPassStaged =>
        \A u \in RemovedIds :
            /\ \A i \in LiveRowsOf(db, u) :
                sess.assets[i] = [db.assets[i] EXCEPT !.valid_until = run.date]
            /\ NewRows(u) = {}
            /\ LiveRowsOf(sess, u) = {}
            /\ Cardinality(NewEvents(u)) = 1
            /\ \A i \in NewEvents(u) :
                /\ sess.change_events[i].change_type = "removed"
                /\ sess.change_events[i].change_date = run.date

RemovedStaged == ScriptPassStaged /\ RemovedIds # {}

\* C9: a live id of the batch whose diff is not empty has its live version
\* closed at snapshot_date, gets exactly one new live version from
\* snapshot_date with the new tidied fields, and exactly one updated event
\* whose changed_fields is the diff between the closed and the new version
UpdatedTransition ==
    ScriptPassStaged =>
        \A u \in UpdatedIds :
            /\ \A i \in LiveRowsOf(db, u) :
                sess.assets[i] = [db.assets[i] EXCEPT !.valid_until = run.date]
            /\ Cardinality(NewRows(u)) = 1
            /\ LiveRowsOf(sess, u) = NewRows(u)
            /\ \A i \in NewRows(u) :
                /\ sess.assets[i].valid_from = run.date
                /\ HoldsFields(sess.assets[i], BatchRecord(u))
            /\ Cardinality(NewEvents(u)) = 1
            /\ \A e \in NewEvents(u), i \in LiveRowsOf(db, u), j \in NewRows(u) :
                /\ sess.change_events[e].change_type = "updated"
                /\ sess.change_events[e].change_date = run.date
                /\ sess.change_events[e].changed_fields =
                       RowDiff(sess.assets[i], sess.assets[j])
                /\ sess.change_events[e].changed_fields # <<>>

UpdatedStaged == ScriptPassStaged /\ UpdatedIds # {}

\* C10: a live id of the batch whose diff is empty keeps its live version as
\* it is, gets no version and no event, and is counted in unchanged only
UnchangedUntouched ==
    ScriptPassStaged =>
        /\ \A u \in UnchangedIds :
            /\ \A i \in LiveRowsOf(db, u) : sess.assets[i] = db.assets[i]
            /\ LiveRowsOf(sess, u) = LiveRowsOf(db, u)
            /\ NewRows(u) = {}
            /\ NewEvents(u) = {}
        /\ run.stats.unchanged = Cardinality(UnchangedIds)
        /\ run.stats.added + run.stats.updated + run.stats.removed
               = Cardinality(AddedIds \cup UpdatedIds \cup RemovedIds)

UnchangedStaged == ScriptPassStaged /\ UnchangedIds # {}

\* C11: the additions, removals and updates of a pass are decided against the
\* live state read at its start: a version the pass opened is still live at
\* its end, no id gets more than one new version or event or is counted
\* twice, and an id whose live version the pass closed gets no added event
LiveStateReadOnce ==
    ScriptPassStaged =>
        /\ \A i \in (Len(db.assets) + 1)..Len(sess.assets) : sess.assets[i].valid_until = NoDate
        /\ \A u \in EntityIds(sess) :
            /\ Cardinality(NewRows(u)) <= 1
            /\ Cardinality(NewEvents(u)) <= 1
            /\ \A e \in NewEvents(u) :
                (sess.change_events[e].change_type = "added") <=> (LiveRowsOf(db, u) = {})
        /\ run.stats.added + run.stats.updated + run.stats.removed + run.stats.unchanged
               = Cardinality(LiveIds(db) \cup BatchIds)

\* a pass that both opens a version for a new id and closes a live version
MixedPassStaged == ScriptPassStaged /\ AddedIds # {} /\ UpdatedIds # {}

\* the pass of the staged batch run again over the session, at the date d
\* and with the ids iterated in the order ord
SecondPass(d, ord) == ApplyChanges(sess, run.records, d, ord)

\* C12: a second pass with the same batch at a later date adds, updates and
\* removes nothing, finds an empty diff for every id of the batch and leaves
\* the versions and the events as the first pass left them
SecondPassChangesNothing ==
    PassStaged =>
        \A d \in (run.date + 1)..(MaxDate + 1), ord \in Orders(PassIds(sess, run.records)) :
            /\ SecondPass(d, ord).assets = sess.assets
            /\ SecondPass(d, ord).change_events = sess.change_events
            /\ SecondPass(d, ord).stats =
                   [added |-> 0, updated |-> 0, removed |-> 0,
                    unchanged |-> Cardinality(BatchIds)]
            /\ \A u \in BatchIds :
                   compare_tidied_assets(asset_to_tidied(tidied_to_asset(BatchRecord(u), d)),
                                         BatchRecord(u)) = <<>>

\* a first pass over a batch whose cell text is tidied before it is stored
PaddedBatchStaged ==
    /\ PassStaged
    /\ \E i \in DOMAIN run.records : run.records[i].category = Str(S_R_padded)
    /\ \E u \in BatchIds : \E i \in LiveRowsOf(sess, u) : sess.assets[i].category = Str(S_R)

\* ------------------------------------------------- a history with two live rows
\* The assets table has no unique constraint on the live row of an id
\* (models.py 80-84: plain indexes). Two passes of the script for the dates 1
\* and 2 whose sessions overlap both read an empty assets table and both add
\* a live row for the id of their raw record: the tables they leave behind.
TwoLiveRows ==
    [assets |-> <<tidied_to_asset(tidy_raw_record(Record(FirstId, S_A, None)), 1),
                  tidied_to_asset(tidy_raw_record(Record(FirstId, S_A, None)), 2)>>,
     change_events |-> <<ChangeEvent(FirstId, "added", 1, <<>>),
                         ChangeEvent(FirstId, "added", 2, <<>>)>>,
     snapshot_metadata |-> {SnapshotMetadata(1, "scrape", 1, [ZeroStats EXCEPT !.added = 1]),
                            SnapshotMetadata(2, "scrape", 1, [ZeroStats EXCEPT !.added = 1])},
     raw_snapshots |-> {RawSnapshot(1, FirstId, Record(FirstId, S_A, None)),
                        RawSnapshot(2, FirstId, Record(FirstId, S_A, None))}]

InitTwoLive ==
    /\ db = TwoLiveRows
    /\ sess = TwoLiveRows
    /\ pc = "idle"
    /\ run = NoRun
    /\ result = "none"
    /\ today = 2
    /\ scraper = NewScraper

\* the harvest and the process_snapshot script run on the history with two
\* live rows
SpecTwoLive == InitTwoLive /\ [][NextScript]_vars

MultiLive(t) == \E u \in EntityIds(t) : Cardinality(LiveRowsOf(t, u)) > 1

\* C13: a pass that starts on a history in which some id has more than one
\* live version fails and stages nothing
MultiLiveIsFatal ==
    [][(pc = "idle" /\ MultiLive(db) /\ run'.entry = "script" /\ ~run'.dry_run
            /\ run'.records # <<>>)
        => (pc' = "idle" /\ sess' = db)]_vars

\* a pass has picked one of the two live rows of an id and closed it
OneOfTwoClosed ==
    /\ MultiLive(db)
    /\ ScriptPassStaged
    /\ \E u \in EntityIds(db) :
          Cardinality(LiveRowsOf(db, u)) = 2 /\ Cardinality(LiveRowsOf(sess, u)) = 2
          /\ LiveRowsOf(sess, u) # LiveRowsOf(db, u)

\* the rows of a sequence as a set
Rows(seq) == {seq[i] : i \in DOMAIN seq}

\* two outcomes of a pass hold the same versions, the same events and the
\* same counts
SameOutcome(a, b) ==
    /\ Len(a.assets) = Len(b.assets)
    /\ Rows(a.assets) = Rows(b.assets)
    /\ Len(a.change_events) = Len(b.change_events)
    /\ Rows(a.change_events) = Rows(b.change_events)
    /\ a.stats = b.stats

\* C14: from the same starting state and batch, the versions, the change
\* events (as a set) and the counts of a pass are the same in whatever order
\* the loops iterate the ids
OrderIrrelevant ==
    ScriptPassStaged =>
        \A o1, o2 \in Orders(PassIds(db, run.records)) :
            SameOutcome(ApplyChanges(db, run.records, run.date, o1),
                        ApplyChanges(db, run.records, run.date, o2))

\* a pass over two ids whose rows come out in a different order when the ids
\* are iterated in the other order
TwoOrdersStaged ==
    /\ ScriptPassStaged
    /\ \E o \in Orders(PassIds(db, run.records)) :
          ApplyChanges(db, run.records, run.date, o).assets # sess.assets

\* process_snapshot.py has run process_snapshot with dry_run = True
DryRunDone == pc = "commit" /\ run.entry = "script" /\ run.dry_run

\* C15: a dry run adds or modifies no row, and returns the counts the pass
\* without dry_run returns from the same tables and the same raw records
DryRunPreviews ==
    DryRunDone =>
        /\ sess = db
        /\ \A ord \in Orders(PassIds(db, run.records)) :
               run.stats = process_snapshot(db, run.records, run.date, FALSE, ord).stats

\* a dry run that previews an unchanged id next to a change
DryRunOfChanges ==
    /\ DryRunDone
    /\ run.stats.unchanged > 0
    /\ run.stats.added + run.stats.updated + run.stats.removed > 0

\* C16: the ChangeEvent log is append-only: every stored event stays where it
\* is with the same entity id, type, date and changed_fields; a step only
\* adds events after it
EventLogAppendOnly ==
    [][/\ Len(db'.change_events) >= Len(db.change_events)
       /\ \A i \in DOMAIN db.change_events : db'.change_events[i] = db.change_events[i]]_vars

\* the log holds the events of two committed passes
TwoPassesLogged ==
    /\ result = "ok"
    /\ \E i, j \in DOMAIN db.change_events :
          db.change_events[i].change_date < db.change_events[j].change_date

\* ------------------------------------------------------------ the fetcher
\* _get_with_retry(url, max_retries=3)
max_retries == 3

\* the calls of scrape_details one scraper object makes in the model
MaxCalls == 3

\* what client.get does: a response with status 200, a response with
\* another status, or an exception (timeout, connection error)
Statuses == {"200", "500", "error"}

\* what a call has done so far: time.sleep of units times
\* settings.scrape_delay, and client.get with its outcome
Slept(units) == [op |-> "sleep", status |-> "", units |-> units]
Got(status) == [op |-> "get", status |-> status, units |-> 0]

\* scrape_details(unique_id) when it is called: attempt is the loop variable
\* of _get_with_retry, trace what the call has done, reg the value of the
\* counter it is about to increment, fetched what _get_with_retry returned,
\* parsed how the extraction went, out what scrape_details returned;
\* errors_at_call is the errors counter when it was called
NewWorker(errors) ==
    [pc |-> "attempt", attempt |-> 0, trace |-> <<>>, reg |-> 0,
     fetched |-> "pending", parsed |-> "none", out |-> "pending",
     errors_at_call |-> errors]

Workers == DOMAIN scraper.fetch
Active == {u \in Workers : scraper.fetch[u].pc \notin {"done", "collected"}}

\* one iteration of the loop of _get_with_retry: the rate-limit sleep, the
\* request and, in the except branch, the sleep of scrape_delay * (attempt + 1)
AttemptTrace(w, status) ==
    w.trace \o <<Slept(1), Got(status)>>
        \o (IF status = "error" THEN <<Slept(w.attempt + 1)>> ELSE <<>>)

\* a loop that runs while attempt <= max_retries
AfterAttemptOneMore(w, status) ==
    [w EXCEPT !.trace = AttemptTrace(w, status),
              !.attempt = @ + 1,
              !.fetched = IF status = "200" THEN "response" ELSE @,
              !.pc = IF status = "200" THEN "parse"
                     ELSE IF w.attempt = max_retries THEN "read_errors"
                     ELSE "attempt"]

\* the call after the iteration: return response on 200, leave the loop
\* after max_retries iterations, else go round again
AfterAttempt(w, status) ==
    [w EXCEPT !.trace = AttemptTrace(w, status),
              !.attempt = @ + 1,
              !.fetched = IF status = "200" THEN "response" ELSE @,
              !.pc = IF status = "200" THEN "parse"
                     ELSE IF w.attempt + 1 = max_retries THEN "read_errors"
                     ELSE "attempt"]

Attempt(u, status) ==
    /\ u \in Workers
    /\ scraper.fetch[u].pc = "attempt"
    /\ scraper' = [scraper EXCEPT !.fetch[u] = AfterAttempt(@, status)]
    /\ UNCHANGED dbvars

\* scrape_details: the extraction from the response; parsing raises or not
Parse(u, ok) ==
    /\ u \in Workers
    /\ scraper.fetch[u].pc = "parse"
    /\ scraper' = [scraper EXCEPT !.fetch[u].parsed = IF ok THEN "ok" ELSE "failed",
                                  !.fetch[u].pc = IF ok THEN "read_fetched" ELSE "read_errors"]
    /\ UNCHANGED dbvars

\* self.stats[key] += 1 is a read of the counter and a write of the value
\* read plus one; a call in another thread can run between the two
ReadCounter(u, key, at, then) ==
    /\ u \in Workers
    /\ scraper.fetch[u].pc = at
    /\ scraper' = [scraper EXCEPT !.fetch[u].reg = scraper.stats[key],
                                  !.fetch[u].pc = then]
    /\ UNCHANGED dbvars

\* a fetch that raises when the retries are exhausted
ExhaustedRaising(w) == [w EXCEPT !.pc = "done", !.out = "raised", !.fetched = "raised"]

\* _get_with_retry has counted the error and returns None, and so does
\* scrape_details (if not response: return None)
Exhausted(w) == [w EXCEPT !.pc = "done", !.out = "None", !.fetched = "None"]

\* scrape_details has counted the error of the extraction and returns None
ParseFailed(w) == [w EXCEPT !.pc = "done", !.out = "None"]

\* scrape_details has counted the details and returns them
Fetched(w) == [w EXCEPT !.pc = "done", !.out = "details"]

ReadErrors(u) == ReadCounter(u, "errors", "read_errors", "write_errors")

WriteErrors(u) ==
    /\ u \in Workers
    /\ scraper.fetch[u].pc = "write_errors"
    /\ scraper' = [scraper EXCEPT
                      !.stats.errors = scraper.fetch[u].reg + 1,
                      !.fetch[u] = IF @.parsed = "failed" THEN ParseFailed(@)
                                   ELSE Exhausted(@)]
    /\ UNCHANGED dbvars

ReadFetched(u) == ReadCounter(u, "details_fetched", "read_fetched", "write_fetched")

WriteFetched(u) ==
    /\ u \in Workers
    /\ scraper.fetch[u].pc = "write_fetched"
    /\ scraper' = [scraper EXCEPT
                      !.stats.details_fetched = scraper.fetch[u].reg + 1,
                      !.fetch[u] = Fetched(@)]
    /\ UNCHANGED dbvars

\* the steps of a call of scrape_details that is under way
WorkerStep(u) ==
    \/ \E status \in Statuses : Attempt(u, status)
    \/ \E ok \in BOOLEAN : Parse(u, ok)
    \/ ReadErrors(u)
    \/ WriteErrors(u)
    \/ ReadFetched(u)
    \/ WriteFetched(u)

\* run_incremental_scrape: the next call of scraper.scrape_details, made
\* when the one before has returned
StartFetch(u) ==
    /\ Active = {}
    /\ scraper.calls < MaxCalls
    /\ scraper' = [scraper EXCEPT !.fetch = u :> NewWorker(scraper.stats.errors),
                                  !.calls = @ + 1]
    /\ UNCHANGED dbvars

\* the harvest that fetches one id after the other
NextFetch ==
    \/ \E u \in Ids : StartFetch(u)
    \/ \E u \in Ids : WorkerStep(u)

SpecFetch == Init /\ [][NextFetch]_vars

\* ------------------------------------------------------------ batch harvest
\* scrape_details_batch(unique_ids): every id is submitted to the pool, the
\* batch being no larger than max_workers; results = {}
Submit(ids) ==
    /\ scraper.batch \in {"none", "returned"}
    /\ scraper.calls + Cardinality(ids) <= MaxCalls
    /\ scraper' = [scraper EXCEPT
                      !.fetch = [u \in ids |-> NewWorker(scraper.stats.errors)],
                      !.results = {},
                      !.batch = "running",
                      !.calls = @ + Cardinality(ids)]
    /\ UNCHANGED dbvars

\* a call of scrape_details that raises outside its try blocks
Raise(u) ==
    /\ scraper.batch = "running"
    /\ u \in Workers
    /\ scraper.fetch[u].pc = "attempt"
    /\ scraper.fetch[u].attempt = 0
    /\ scraper' = [scraper EXCEPT !.fetch[u].pc = "done", !.fetch[u].out = "raised"]
    /\ UNCHANGED dbvars

\* a loop over the futures that gives the whole batch up when one has failed
CollectedOrDropped(results, u, out) == IF out = "details" THEN results \cup {u} ELSE {}

\* the loop over as_completed: future.result() raises (logged) or returns
\* None or the details; results[uid] = details if details
Collected(results, u, out) == IF out = "details" THEN results \cup {u} ELSE results

Collect(u) ==
    /\ scraper.batch = "running"
    /\ u \in Workers
    /\ scraper.fetch[u].pc = "done"
    /\ scraper' = [scraper EXCEPT
                      !.results = Collected(@, u, scraper.fetch[u].out),
                      !.fetch[u].pc = "collected"]
    /\ UNCHANGED dbvars

\* every future is done: return results
ReturnBatch ==
    /\ scraper.batch = "running"
    /\ \A u \in Workers : scraper.fetch[u].pc = "collected"
    /\ scraper' = [scraper EXCEPT !.batch = "returned"]
    /\ UNCHANGED dbvars

\* the harvest that fetches the ids of a batch in parallel
NextBatch ==
    \/ \E ids \in SUBSET Ids : Submit(ids)
    \/ \E u \in Ids : Raise(u)
    \/ \E u \in Ids : WorkerStep(u)
    \/ \E u \in Ids : Collect(u)
    \/ ReturnBatch

SpecBatch == Init /\ [][NextBatch]_vars

\* ------------------------------------------------- properties of the fetcher
\* the requests a call has issued
Gets(w) == SelectSeq(w.trace, LAMBDA e : e.op = "get")

\* C17: one call of _get_with_retry issues at most max_retries requests,
\* returns the response on the first 200 without a further request, and
\* returns the failure only after max_retries requests that all failed
FetchBound ==
    \A u \in Workers :
        /\ Len(Gets(scraper.fetch[u])) <= max_retries
        /\ \A i \in 1..(Len(Gets(scraper.fetch[u])) - 1) :
               Gets(scraper.fetch[u])[i].status # "200"
        /\ scraper.fetch[u].fetched = "response" <=>
               /\ Gets(scraper.fetch[u]) # <<>>
               /\ Gets(scraper.fetch[u])[Len(Gets(scraper.fetch[u]))].status = "200"
        /\ scraper.fetch[u].fetched \notin {"pending", "response"} =>
               /\ Len(Gets(scraper.fetch[u])) = max_retries
               /\ \A i \in 1..max_retries : Gets(scraper.fetch[u])[i].status # "200"

\* a fetch that succeeded on its last attempt, after a non-200 response and a
\* transport error
LastAttemptSucceeds ==
    \E u \in Workers :
        /\ scraper.fetch[u].fetched = "response"
        /\ Len(Gets(scraper.fetch[u])) = max_retries
        /\ Gets(scraper.fetch[u])[1].status # Gets(scraper.fetch[u])[2].status

\* C18: a fetch whose attempts all fail returns None without raising and has
\* increased the errors counter by exactly one; a fetch that returned a
\* response has left the counter as it was
ExhaustionCounted ==
    \A u \in Workers :
        /\ (scraper.fetch[u].pc = "done" /\ scraper.fetch[u].parsed = "none") =>
               /\ scraper.fetch[u].fetched = "None"
               /\ scraper.fetch[u].out = "None"
               /\ scraper.stats.errors = scraper.fetch[u].errors_at_call + 1
        /\ (scraper.fetch[u].fetched = "response" /\ scraper.fetch[u].parsed = "none") =>
               scraper.stats.errors = scraper.fetch[u].errors_at_call

\* the second exhausted fetch of a scraper has been counted
SecondExhaustion ==
    \E u \in Workers :
        /\ scraper.fetch[u].fetched = "None"
        /\ scraper.fetch[u].errors_at_call = 1
        /\ scraper.stats.errors = 2

\* the entries of the trace between two consecutive requests, the earlier
\* one at position i
UntilNextGet(trace, i) ==
    SubSeq(trace, i + 1,
           (CHOOSE j \in (i + 1)..Len(trace) :
                /\ trace[j].op = "get"
                /\ \A k \in (i + 1)..(j - 1) : trace[k].op # "get") - 1)

\* the number of the attempt whose request is at position i of the trace
AttemptNumber(trace, i) == Cardinality({k \in 1..i : trace[k].op = "get"})

\* C19: between two consecutive attempts of a fetch, whether the earlier one
\* got a non-200 status or a transport error, the fetcher sleeps the attempt
\* number times the delay and then the rate-limit delay of the next request
BackoffBetweenAttempts ==
    \A u \in Workers :
        \A i \in DOMAIN scraper.fetch[u].trace :
            (/\ scraper.fetch[u].trace[i].op = "get"
             /\ \E j \in (i + 1)..Len(scraper.fetch[u].trace) :
                    scraper.fetch[u].trace[j].op = "get")
            => UntilNextGet(scraper.fetch[u].trace, i)
                   = <<Slept(AttemptNumber(scraper.fetch[u].trace, i)), Slept(1)>>

\* a second request that follows a non-200 response after the rate-limit
\* delay alone
RetryWithoutBackoff ==
    \E u \in Workers :
        /\ Len(scraper.fetch[u].trace) >= 4
        /\ SubSeq(scraper.fetch[u].trace, 2, 4) = <<Got("500"), Slept(1), Got("200")>>

\* the calls of the batch whose detail fetch succeeded: the response came
\* and the extraction did not raise
Succeeded == {u \in Workers : scraper.fetch[u].fetched = "response"
                                /\ scraper.fetch[u].parsed = "ok"}

\* C20: scrape_details_batch returns a map whose keys are exactly the ids
\* whose detail fetch succeeded, whatever happened to the other ids
BatchPartial == scraper.batch = "returned" => scraper.results = Succeeded

\* a batch in which one id succeeded and the other failed, the failure being
\* collected after the success
PartialBatchReturned ==
    /\ scraper.batch = "returned"
    /\ Cardinality(Workers) = 2
    /\ Cardinality(scraper.results) = 1

\* ------------------------------------------------- the incremental harvest
\* a loop that keeps what it fetched for one commit after the last entity
save_at_the_end(t, raw, snapshot_date) == t

\* with get_session() as session: session.add(RawSnapshot(...)): the tables
\* after the block; the unique index on (snapshot_date, unique_id) makes the
\* commit raise and roll back when the pair is stored already
save_immediately(t, raw, snapshot_date) ==
    IF FlushRaises(t, <<raw>>, snapshot_date) THEN t ELSE WithRaw(t, <<raw>>, snapshot_date)

\* a filter that lets every summary through
to_scrape_all(summaries, recent_ids) == summaries

\* to_scrape = [s for s in summaries if s.unique_id not in recent_ids]
to_scrape(summaries, recent_ids) ==
    SelectSeq(summaries, LAMBDA s : RawKey(s) \notin recent_ids)

\* run_incremental_scrape(skip_days, limit=None, dry_run) up to its loop: snapshot_date
\* is today's date for the whole run, recent_ids is read once
HarvestBegin(summaries, days, dry_run) ==
    /\ pc = "idle"
    /\ IF summaries = <<>> THEN Return("no_summaries")
       ELSE IF dry_run THEN Return("dry_run")
       ELSE /\ pc' = "harvest"
            /\ run' = [NoRun EXCEPT
                          !.entry = "harvest", !.date = today, !.days = days,
                          !.records = summaries,
                          !.to_scrape = to_scrape(summaries,
                                            get_recently_scraped_ids(db, today, days)),
                          !.i = 1]
            /\ UNCHANGED <<db, sess, result, today, scraper>>

\* the loop body up to the save: scraper.scrape_details returns the details
\* or None; None is counted and the loop goes on to the next summary
HarvestFetch(ok) ==
    /\ pc = "harvest"
    /\ run.in_flight = <<>>
    /\ run.i <= Len(run.to_scrape)
    /\ run' = IF ok
              THEN [run EXCEPT !.in_flight = <<run.to_scrape[run.i]>>,
                               !.fetched = Append(@, run.to_scrape[run.i])]
              ELSE [run EXCEPT !.i = @ + 1, !.errors = @ + 1]
    /\ UNCHANGED <<db, sess, pc, result, today, scraper>>

\* the loop body from the save on: the record is committed in a session of
\* its own; a commit that raises is counted by except Exception
HarvestSave ==
    /\ pc = "harvest"
    /\ run.in_flight # <<>>
    /\ WithinBounds(save_immediately(db, run.in_flight[1], run.date))
    /\ db' = save_immediately(db, run.in_flight[1], run.date)
    /\ sess' = db'
    /\ run' = [run EXCEPT !.in_flight = <<>>, !.i = @ + 1,
                          !.errors = IF db' = db THEN @ + 1 ELSE @]
    /\ UNCHANGED <<pc, result, today, scraper>>

\* the run is interrupted (KeyboardInterrupt breaks the loop, a kill ends
\* the process): what is fetched and not yet committed is never stored, and
\* in_flight goes on naming it
HarvestInterrupt ==
    /\ pc = "harvest"
    /\ pc' = "idle"
    /\ result' = "interrupted"
    /\ UNCHANGED <<db, sess, run, today, scraper>>

\* the loop is over: return the stats
HarvestEnd ==
    /\ pc = "harvest"
    /\ run.in_flight = <<>>
    /\ run.i > Len(run.to_scrape)
    /\ pc' = "idle"
    /\ result' = "harvested"
    /\ UNCHANGED <<db, sess, run, today, scraper>>

\* midnight passes while the run is under way
Midnight ==
    /\ pc = "harvest"
    /\ today < MaxDate
    /\ today' = today + 1
    /\ UNCHANGED <<db, sess, pc, run, result, scraper>>

NextHarvest ==
    \/ \E summaries \in HarvestBatches, days \in SkipDays, dry_run \in BOOLEAN :
           HarvestBegin(summaries, days, dry_run)
    \/ \E ok \in BOOLEAN : HarvestFetch(ok)
    \/ HarvestSave
    \/ HarvestInterrupt
    \/ HarvestEnd
    \/ Midnight
    \/ Tick

SpecHarvest == Init /\ [][NextHarvest]_vars

\* the raw records the run has fetched and must have committed: all but the
\* one in flight
MustBeStored == IF run.in_flight = <<>> THEN run.fetched ELSE SubSeq(run.fetched, 1, Len(run.fetched) - 1)

\* C21: during an incremental harvest and after its interruption, every raw
\* record the run fetched successfully is stored under the run's snapshot
\* date, except at most the one fetched last and not yet committed
PersistsAsItGoes ==
    run.entry = "harvest" =>
        \A k \in 1..Len(MustBeStored) : HasRaw(db, run.date, RawKey(MustBeStored[k]))

\* an interrupted run that had stored a record and lost the one in flight
InterruptedHarvest ==
    /\ run.entry = "harvest"
    /\ result = "interrupted"
    /\ Len(run.fetched) = 2
    /\ run.in_flight = <<run.fetched[2]>>
    /\ HasRaw(db, run.date, RawKey(run.fetched[1]))
    /\ ~HasRaw(db, run.date, RawKey(run.fetched[2]))

\* the id has a raw snapshot dated within the last days days as of today
StoredWithin(u, days) ==
    \E r \in db.raw_snapshots : r.unique_id = u /\ r.snapshot_date >= today - days

\* a harvest run begins in this step
HarvestBegins == pc = "idle" /\ pc' = "harvest"

FullRaw ==
    [uniqueID |-> Str(FirstId),
     owner_id |-> Str(<<"7">>),
     description |-> Str(<<"D">>),
     location |-> Str(<<"L">>),
     category |-> Str(S_A),
     access_details |-> Str(<<"V">>),
     contact_name |-> Str(<<"N">>),
     contact_address |-> Str(<<"H", ",", " ", "T", ",", " ", "A", "1", " ", "1", "A", "A">>),
     access_phone |-> None,
     telephone_no |-> Str(<<"0", "2", "0", " ", "7", "1", "2", "3", " ", "4", "5", "6", "7">>),
     fax_no |-> Str(<<"+", "4", "4", " ", "2", "0", "-", "7", "1", "2", "3">>),
     email |-> Str(<<"e">>),
     website |-> Str(<<"w">>)]

RawKeys == DOMAIN FullRaw

RawWith(raw, key, value) == [k \in DOMAIN raw \cup {key} |-> IF k = key THEN value ELSE raw[k]]

RawWithout(raw, key) == [k \in DOMAIN raw \ {key} |-> raw[k]]

\* what a key can hold: null, the empty string, blanks, padded text, text
OddValues == {None, Str(<<>>), Str(<<" ">>), Str(<<" ", "B", " ">>), Str(<<"B">>)}

\* the texts of the telephone field, the access phone and the address with
\* its phone: none, text without a digit, fewer than 10 digits, 10 digits
TelephoneTexts == {None, Str(<<>>), Str(<<"n", "/", "a">>), Str(<<"1", "1", "1">>), Str(<<"1", "1", "1", "1", "1", "1", "1", "1", "1", "1">>)}
AccessTexts == {None, Str(<<"-">>), Str(<<"2", "2", "2">>), Str(<<"2", "2", "2", "2", "2", "2", "2", "2", "2", "2">>)}
AddressTexts == {Str(<<"H", ",", " ", "A", "1", " ", "1", "A", "A">>), Str(<<"H", ",", " ", "A", "1", " ", "1", "A", "A", " ", "3", "3", "3", "3", "3", "3", "3", "3">>), Str(<<"H", ",", " ", "A", "1", " ", "1", "A", "A", " ", "3", "3", "3", "3", "3", "3", "3", "3", "3", "3">>)}

PhoneRaws ==
    {RawWith(RawWith(RawWith(FullRaw, "telephone_no", t), "access_phone", a), "contact_address", c) :
        t \in TelephoneTexts, a \in AccessTexts, c \in AddressTexts}

\* addresses of one to five parts, with and without a postcode, a county
\* as the last part, empty parts, blanks around the parts, text after the
\* postcode
PartTexts ==
    {Str(<<"H">>),
     Str(<<"H", ",", " ", "A", "1", " ", "1", "A", "A">>),
     Str(<<"H", ",", " ", "T">>),
     Str(<<" ", "H", " ", ",", "T", ",", " ", "A", "1", " ", "1", "A", "A">>),
     Str(<<"H", ",", " ", "S", ",", " ", "T">>),
     Str(<<"H", ",", ",", " ", "S", ",", " ", "T", ",", " ", "A", "1", " ", "1", "A", "A">>),
     Str(<<"H", ",", " ", "S", ",", " ", "T", ",", " ", "K", "E", "N", "T">>),
     Str(<<"H", ",", " ", "S", ",", " ", "U", ",", " ", "T">>),
     Str(<<"H", ",", " ", "S", ",", " ", "T", ",", " ", "K", "e", "n", "t", ",", " ", "A", "1", " ", "1", "A", "A">>),
     Str(<<"H", ",", " ", "S", ",", " ", "U", ",", " ", "T", ",", " ", "D", "E", "V", "O", "N">>),
     Str(<<"H", ",", " ", "S", ",", " ", "U", ",", " ", "V", ",", " ", "T">>),
     Str(<<"H", ",", " ", "S", ",", " ", "T", ",", " ", "Y", "o", "r", "k", "s", "h", "i", "r", "e">>),
     Str(<<"H", ",", " ", "S", ",", " ", "T", ",", " ", "K", "e", "n", "t", "i", "s", "h">>),
     Str(<<"A", "1", " ", "1", "A", "A">>),
     Str(<<"H", ",", " ", "A", "1", " ", "1", "A", "A", ",", " ", "T">>),
     Str(<<" ", ",", " ">>)}

AddressRaws == {RawWith(FullRaw, "contact_address", c) : c \in PartTexts}

OddRaws ==
    {RawWith(FullRaw, k, v) : k \in RawKeys, v \in OddValues}
        \cup {RawWithout(FullRaw, k) : k \in RawKeys}
        \cup {RawWith(RawWithout(FullRaw, "uniqueID"), "unique_id", v) : v \in OddValues}

BareRaw == [uniqueID |-> Str(FirstId)]

TidyRaws == {FullRaw, BareRaw} \cup OddRaws \cup PhoneRaws \cup AddressRaws

\* the records a record is compared with, besides itself
OtherRaws ==
    {FullRaw, BareRaw, RawWith(FullRaw, "website", None),
     RawWith(RawWith(FullRaw, "email", Str(<<"f">>)), "owner_id", None),
     RawWith(RawWith(FullRaw, "contact_address", Str(<<"G", ",", " ", "S", ",", " ", "U", ",", " ", "B", "2", " ", "2", "B", "B", " ", "3", "3", "3", "3", "3", "3", "3", "3", "3", "3">>)), "category", Str(S_R))}

\* two raw records are given
InitTidy ==
    /\ db = EmptyDb
    /\ sess = EmptyDb
    /\ pc = "input"
    /\ run \in UNION {{[NoRun EXCEPT !.entry = "tidy", !.records = <<r1, r2>>] :
                          r2 \in OtherRaws \cup {r1}} : r1 \in TidyRaws}
    /\ result = "none"
    /\ today = 1
    /\ scraper = NewScraper

\* tidy_raw_record is applied to both records
TidyBoth ==
    /\ pc = "input"
    /\ run' = [run EXCEPT !.tidied = <<tidy_raw_record(run.records[1]),
                                       tidy_raw_record(run.records[2])>>]
    /\ pc' = "tidied"
    /\ UNCHANGED <<db, sess, result, today, scraper>>

\* compare_tidied_assets is applied to the two tidied records
Compare ==
    /\ pc = "tidied"
    /\ run' = [run EXCEPT !.out = compare_tidied_assets(run.tidied[1], run.tidied[2])]
    /\ pc' = "compared"
    /\ UNCHANGED <<db, sess, result, today, scraper>>

\* the three candidates tidy_raw_record hands to dedupe_phone
RawCandidatesOf(raw, extracted) ==
    <<extracted[2], Get(raw, "telephone_no", None), Get(raw, "access_phone", None)>>

RawCandidates(raw) ==
    RawCandidatesOf(raw, extract_phone_from_address(OrEmpty(Get(raw, "contact_address", Str(<<>>))).s))

\* dedupe_phone is applied to the candidates of the first record
DedupePhone ==
    /\ pc = "input"
    /\ run' = [run EXCEPT !.out =
                  dedupe_phone(RawCandidates(run.records[1])[1],
                               RawCandidates(run.records[1])[2],
                               RawCandidates(run.records[1])[3])]
    /\ pc' = "deduped"
    /\ UNCHANGED <<db, sess, result, today, scraper>>

\* parse_address is applied to the address of the first record
ParseAddress ==
    /\ pc = "input"
    /\ run' = [run EXCEPT !.out =
                  parse_address(OrEmpty(Get(run.records[1], "contact_address", None)).s)]
    /\ pc' = "parsed"
    /\ UNCHANGED <<db, sess, result, today, scraper>>

NextTidy ==
    \/ TidyBoth
    \/ Compare
    \/ DedupePhone
    \/ ParseAddress

SpecTidy == InitTidy /\ [][NextTidy]_vars

\* the fields of a canonical record in the order of comparison
FieldOrder ==
    <<"owner_id", "description", "location", "category", "access_details",
      "contact_name", "address_line1", "address_line2", "address_city",
      "address_postcode", "telephone", "fax", "email", "website">>

FieldOf(tidied, f) == IF f \in DOMAIN tidied THEN tidied[f] ELSE tidied.contact[f]

Differing(old, new) == {k \in DOMAIN FieldOrder : FieldOf(old, FieldOrder[k]) # FieldOf(new, FieldOrder[k])}

\* the names are those of the differing fields, in the order of the list
NamesInOrder(names, positions) ==
    /\ Len(names) = Cardinality(positions)
    /\ \A i \in DOMAIN names : \E k \in positions :
           /\ names[i] = FieldOrder[k]
           /\ Cardinality({j \in positions : j < k}) = i - 1

\* C23: compare_tidied_assets returns the names of the fields of the fixed
\* list whose values differ, each once and in the order of the list, a
\* field absent on one side and present on the other included; it returns
\* the empty list for the two tidied images of one raw record
DifferExact ==
    pc = "compared" =>
        /\ NamesInOrder(run.out, Differing(run.tidied[1], run.tidied[2]))
        /\ run.records[1] = run.records[2] => run.out = <<>>

\* two records compared that differ in two fields, one of them absent on one
\* side and present on the other
AbsentVersusPresent ==
    /\ pc = "compared"
    /\ run.out = <<"owner_id", "email">>
    /\ run.tidied[1].owner_id # None
    /\ run.tidied[2].owner_id = None

\* the candidates of the first record in priority order: telephone field,
\* access phone, address phone
InPriority(raw) == <<RawCandidates(raw)[2], RawCandidates(raw)[3], RawCandidates(raw)[1]>>

\* the digits of a candidate, none for an absent or empty one
DigitsOfCandidate(c) == IF Truthy(c) THEN SelectSeq(normalize_phone(c.s), IsDigit) ELSE <<>>

\* the first candidate whose digits number at least least
FirstOfLength(cands, least) ==
    CHOOSE i \in 1..3 :
        /\ Len(DigitsOfCandidate(cands[i])) >= least
        /\ \A j \in 1..(i - 1) : Len(DigitsOfCandidate(cands[j])) < least

\* C24: dedupe_phone returns the normalized form of the first candidate in
\* priority order that has at least 10 digits; if there is none, that of the
\* first candidate whose normalized form is non-empty, whatever text the
\* candidates before it hold; if there is none either, nothing
DedupePicksFirstUsable ==
    pc = "deduped" =>
        IF \E i \in 1..3 : Len(DigitsOfCandidate(InPriority(run.records[1])[i])) >= 10
        THEN run.out = Str(DigitsOfCandidate(InPriority(run.records[1])[
                               FirstOfLength(InPriority(run.records[1]), 10)]))
        ELSE IF \E i \in 1..3 : Len(DigitsOfCandidate(InPriority(run.records[1])[i])) >= 1
        THEN run.out = Str(DigitsOfCandidate(InPriority(run.records[1])[
                               FirstOfLength(InPriority(run.records[1]), 1)]))
        ELSE run.out = None

\* the telephone field holds text without a digit, the access phone three
\* digits and the address no phone: the result is the empty string
EmptyStringPicked ==
    /\ pc = "deduped"
    /\ Truthy(InPriority(run.records[1])[1])
    /\ DigitsOfCandidate(InPriority(run.records[1])[1]) = <<>>
    /\ DigitsOfCandidate(InPriority(run.records[1])[2]) = <<"2", "2", "2">>
    /\ InPriority(run.records[1])[3] = None
    /\ run.out = Str(<<>>)

\* the trimmed non-empty parts of the address before its first postcode, or
\* of the whole address when it has none
PartsOf(address, postcode_match) ==
    AddressParts(IF postcode_match[1] # 0 THEN SubSeq(address, 1, postcode_match[1] - 1)
                 ELSE address)

GivenParts == PartsOf(OrEmpty(Get(run.records[1], "contact_address", None)).s, PostcodeSearch(OrEmpty(Get(run.records[1], "contact_address", None)).s, 1))

LastIsCounty(parts) ==
    \E k \in DOMAIN county_indicators : Contains(Upper(parts[Len(parts)]), county_indicators[k])

\* line1, line2 and city of a parsed address
Lines(parsed) == <<parsed.line1, parsed.line2, parsed.city>>

MaxPhoneLen == 4

\* the characters of the enumerated phone texts
PhoneChars == {"+", "4", "0", "7", "-", " ", "("}

\* written phone numbers beyond that length
LongPhoneTexts ==
    {<<"+", "4", "4", " ", "2", "0", "7", " ", "1", "2", "3", " ", "4", "5", "6", "7">>,
     <<"0", "2", "0", "7", " ", "1", "2", "3", "4", "5", "6", "7">>,
     <<"0", "0", "4", "4", " ", "2", "0", "7", " ", "1", "2", "3", " ", "4", "5", "6", "7">>,
     <<"+", "4", "4", " ", "(", "0", ")", "2", "0", " ", "7", "1", "2", "3">>,
     <<"+", "4", "4", " ", "0", "4", "4", "1", " ", "2", "3", "4">>,
     <<"(", "+", "4", "4", ")", " ", "2", "0", "7">>,
     <<"+", "4", "4", "0", "0", "4", "4", "1", "2", "3">>,
     <<"0", "0", " ", "4", "4", "-", "0", "0", "4", "4", "-", "7">>,
     <<"(", "0", "0", "4", "4", ")", " ", "2", "0", "7">>}

PhoneTexts == UNION {[1..n -> PhoneChars] : n \in 0..MaxPhoneLen} \cup LongPhoneTexts

\* a phone text is given
InitPhone ==
    /\ db = EmptyDb
    /\ sess = EmptyDb
    /\ pc = "input"
    /\ run \in {[NoRun EXCEPT !.entry = "normalize_phone", !.phone = p] : p \in PhoneTexts}
    /\ result = "none"
    /\ today = 1
    /\ scraper = NewScraper

\* normalize_phone is applied to the text
NormalizePhone ==
    /\ pc = "input"
    /\ run' = [run EXCEPT !.out = normalize_phone(run.phone)]
    /\ pc' = "normalized"
    /\ UNCHANGED <<db, sess, result, today, scraper>>

\* dedupe_phone: normalize_phone is applied to a candidate that is a
\* normalized phone already; phone keeps the value after one application
NormalizeAgain ==
    /\ pc = "normalized"
    /\ run' = [run EXCEPT !.phone = run.out, !.out = normalize_phone(run.out)]
    /\ pc' = "renormalized"
    /\ UNCHANGED <<db, sess, result, today, scraper>>

NextPhone == NormalizePhone \/ NormalizeAgain

SpecPhone == InitPhone /\ [][NextPhone]_vars

\* the text without its whitespace and hyphens
Compact(s) == SelectSeq(s, LAMBDA c : c \notin {" ", "\t", "\n", "-"})

DigitsIn(s) == SelectSeq(s, LAMBDA c : c \in Digits)

After(s, n) == SubSeq(s, n + 1, Len(s))

Plus44 == <<"+", "4", "4">>
DoubleZero44 == <<"0", "0", "4", "4">>

Blank(v) == ~IsStr(v) \/ Strip(v.s) = <<>>

\* the raw value the entity id is taken from
RawId(raw) == Get(raw, "uniqueID", Get(raw, "unique_id", None))

\* the optional fields that are copied from one raw key
CopiedFields == {"owner_id", "access_details", "contact_name", "email", "website"}

\* the tidied record holds the defaults of its raw record
HoldsDefaults(raw, tidied) ==
    /\ Blank(RawId(raw)) => tidied.unique_id = <<>>
    /\ \A f \in {"description", "location", "category"} :
           /\ IsStr(tidied[f])
           /\ Blank(Get(raw, f, None)) => tidied[f] = Str(<<>>)
    /\ \A f \in CopiedFields :
           /\ FieldOf(tidied, f) # Str(<<>>)
           /\ Blank(Get(raw, f, None)) => FieldOf(tidied, f) = None
    /\ \A f \in DOMAIN tidied.contact : tidied.contact[f] # Str(<<>>)
    /\ Blank(Get(raw, "fax_no", None)) => tidied.contact.fax = None
    /\ tidied.unique_id = <<>> => DOMAIN TidiedMap(<<raw>>) = {}

\* C27: the tidied record has entity_id, description, location and category
\* as strings, empty when the raw value is missing, null or blank; every
\* other field is null, never the empty string, when its raw value is
\* missing, null or blank; a record with an empty entity_id is left out of
\* the reconciliation
CanonicalDefaults ==
    pc = "tidied" => HoldsDefaults(run.records[1], run.tidied[1])

\* a raw record whose id is null has been tidied: its entity id is the text
\* None, and the reconciliation takes it for an entity
NullIdKept ==
    /\ pc = "tidied"
    /\ "uniqueID" \in DOMAIN run.records[1]
    /\ run.records[1].uniqueID = None
    /\ run.tidied[1].unique_id = <<"N", "o", "n", "e">>
    /\ DOMAIN TidiedMap(<<run.records[1]>>) = {<<"N", "o", "n", "e">>}

\* ------------------------------------------------------ the listing page
\* the rows of a listing page in the model
MaxRows == 3

\* a row of the listing: the number of its td cells, whether its first
\* cell has a link and the link an href, the href, the text of the second
\* cell, and whether reading the row raises
Row(cells, link, href, description, raises) ==
    [cells |-> cells, link |-> link, href |-> href, description |-> description, raises |-> raises]

ListingRows ==
    {Row(4, "href", <<"?", "I", "D", "=", "1">>, <<" ", "D">>, FALSE),
     Row(5, "href", <<"?", "I", "D", "=", "9", "&", "I", "D", "=", "2", "&", "p">>, <<"E">>, FALSE),
     Row(3, "href", <<"?", "I", "D", "=", "1">>, <<"F">>, FALSE),
     Row(4, "none", <<>>, <<"G">>, FALSE),
     Row(4, "no_href", <<>>, <<"H">>, FALSE),
     Row(4, "href", <<"?", "p", "=", "1">>, <<"I">>, FALSE),
     Row(4, "href", <<"?", "I", "D", "=", "&", "p">>, <<"J">>, FALSE),
     Row(4, "href", <<"?", "I", "D", "=", "1">>, <<"K">>, TRUE)}

Pages == UNION {[1..n -> ListingRows] : n \in 0..MaxRows}

IdMarker == <<"I", "D", "=">>

\* s.split(sep)[-1]: the text after the last sep, s itself without one
AfterLast(s, sep) ==
    IF ~Contains(s, sep) THEN s
    ELSE SubSeq(s, Len(sep) + CHOOSE i \in 1..(Len(s) - Len(sep) + 1) :
                    /\ SubSeq(s, i, i + Len(sep) - 1) = sep
                    /\ \A j \in (i + 1)..(Len(s) - Len(sep) + 1) :
                           SubSeq(s, j, j + Len(sep) - 1) # sep,
                Len(s))

\* s.split(c)[0]: the text before the first c
BeforeFirst(s, c) ==
    SubSeq(s, 1, CHOOSE i \in 0..Len(s) :
                    /\ \A j \in 1..i : s[j] # c
                    /\ (i = Len(s) \/ s[i + 1] = c))

\* href.split("ID=")[-1].split("&")[0]
IdOf(href) == BeforeFirst(AfterLast(href, IdMarker), "&")

\* the body of the loop for one row: "raise", "skip" or "append"
ParseRow(row) ==
    IF row.raises THEN "raise"
    ELSE IF row.cells < 4 THEN "skip"
    ELSE IF row.link # "href" THEN "skip"
    ELSE IF ~Contains(row.href, IdMarker) THEN "skip"
    ELSE IF IdOf(row.href) = <<>> THEN "skip"
    ELSE "append"

ScrapedSummary(row) == [unique_id |-> IdOf(row.href), description |-> Strip(row.description)]

\* a loop whose try block is around the whole of it: the first row that
\* raises ends the parse
RECURSIVE ParseRowsAborting(_, _, _, _)
ParseRowsAborting(rows, i, summaries, errors) ==
    IF i > Len(rows) THEN [summaries |-> summaries, errors |-> errors]
    ELSE IF ParseRow(rows[i]) = "raise" THEN [summaries |-> summaries, errors |-> errors + 1]
    ELSE IF ParseRow(rows[i]) = "skip" THEN ParseRowsAborting(rows, i + 1, summaries, errors)
    ELSE ParseRowsAborting(rows, i + 1, Append(summaries, ScrapedSummary(rows[i])), errors)

\* for row in rows: try ... except Exception: self.stats["errors"] += 1
RECURSIVE ParseRows(_, _, _, _)
ParseRows(rows, i, summaries, errors) ==
    IF i > Len(rows) THEN [summaries |-> summaries, errors |-> errors]
    ELSE IF ParseRow(rows[i]) = "raise" THEN ParseRows(rows, i + 1, summaries, errors + 1)
    ELSE IF ParseRow(rows[i]) = "skip" THEN ParseRows(rows, i + 1, summaries, errors)
    ELSE ParseRows(rows, i + 1, Append(summaries, ScrapedSummary(rows[i])), errors)

\* a listing page is served
InitSummaries ==
    /\ db = EmptyDb
    /\ sess = EmptyDb
    /\ pc = "input"
    /\ run \in {[NoRun EXCEPT !.entry = "scrape_summaries", !.records = rows] : rows \in Pages}
    /\ result = "none"
    /\ today = 1
    /\ scraper = NewScraper

\* scrape_summaries(): the fetch of the page gives a response or, after
\* the retries, None; the rows of the response are parsed one by one
ScrapeSummaries(response, parsed) ==
    /\ pc = "input"
    /\ pc' = "summaries"
    /\ result' = IF response THEN "parsed" ELSE "no_response"
    /\ run' = [run EXCEPT !.out = IF response THEN parsed.summaries ELSE <<>>]
    /\ scraper' = [scraper EXCEPT
                      !.stats.errors = IF response THEN @ + parsed.errors ELSE @ + 1,
                      !.stats.summaries_found = IF response THEN Len(parsed.summaries) ELSE @]
    /\ UNCHANGED <<db, sess, today>>

NextSummaries == \E response \in BOOLEAN : ScrapeSummaries(response, ParseRows(run.records, 1, <<>>, 0))

SpecSummaries == InitSummaries /\ [][NextSummaries]_vars

\* a row with four cells or more, a link with an id in its href, whose
\* parsing does not raise
WellFormed(row) ==
    /\ ~row.raises
    /\ row.cells >= 4
    /\ row.link = "href"
    /\ \E i \in 1..(Len(row.href) - 3) :
           /\ SubSeq(row.href, i, i + 2) = IdMarker
           /\ row.href[i + 3] # "&"
           /\ \A j \in (i + 1)..(Len(row.href) - 2) : SubSeq(row.href, j, j + 2) # IdMarker

\* C28: the summaries scrape_summaries returns for a page it has fetched
\* are those of the well-formed rows of the page, one for each, in the
\* order of the rows, whatever other rows the page holds
OneSummaryPerGoodRow ==
    (pc = "summaries" /\ result = "parsed") =>
        /\ Len(run.out) = Len(SelectSeq(run.records, WellFormed))
        /\ \A k \in DOMAIN run.out :
               /\ run.out[k].description = Strip(SelectSeq(run.records, WellFormed)[k].description)
               /\ run.out[k].unique_id # <<>>
               /\ Contains(SelectSeq(run.records, WellFormed)[k].href, IdMarker \o run.out[k].unique_id)

\* a page with a well-formed row on either side of a row that raises has
\* been parsed: both summaries are returned and one error is counted
GoodRowsAroundBadRow ==
    /\ pc = "summaries"
    /\ result = "parsed"
    /\ Len(run.records) = 3
    /\ WellFormed(run.records[1])
    /\ run.records[2].raises
    /\ WellFormed(run.records[3])
    /\ Len(run.out) = 2
    /\ scraper.stats.errors = 1

\* C29: a pass is accepted only for a date later than every date processed,
\* so that every closed version has valid_from < valid_until and every
\* update closes the old version at the date the new version begins
DatesOnlyForward ==
    /\ (pc = "commit" /\ run.entry = "script" /\ ~run.dry_run) =>
           \A m \in db.snapshot_metadata : m.snapshot_date < run.date
    /\ \A i \in DOMAIN db.assets :
           db.assets[i].valid_until # NoDate => db.assets[i].valid_from < db.assets[i].valid_until
    /\ \A k \in DOMAIN db.change_events :
           db.change_events[k].change_type = "updated" =>
               \E i, j \in RowsOf(db, db.change_events[k].unique_id) :
                   /\ db.assets[i].valid_until = db.change_events[k].change_date
                   /\ db.assets[j].valid_from = db.change_events[k].change_date

\* a pass for a date is staged when a later date has been processed
EarlierDateAccepted ==
    /\ pc = "commit"
    /\ run.entry = "script"
    /\ ~run.dry_run
    /\ run.records # <<>>
    /\ \E m \in db.snapshot_metadata : m.snapshot_date > run.date

\* a pass with a non-empty batch has run in the open session, whose tables
\* the commit stores
BatchPassStaged == PassStaged /\ run.records # <<>>

\* C30: after a pass with a non-empty batch the entities with a live version
\* are the distinct non-empty entity ids of the batch, and the live version
\* of each holds the compared fields of the tidied batch record of its id
LiveMirrorsBatch ==
    BatchPassStaged =>
        /\ LiveIds(sess) = {tidy_raw_record(run.records[k]).unique_id : k \in DOMAIN run.records} \ {<<>>}
        /\ \A u \in LiveIds(sess) : \A i \in LiveRowsOf(sess, u) :
               \E k \in DOMAIN run.records : HoldsFields(sess.assets[i], tidy_raw_record(run.records[k]))

\* a pass has closed the version of one entity, left the version of another
\* as it was and the batch also holds a record without an id
BatchWithRemovalStaged ==
    /\ BatchPassStaged
    /\ \E k \in DOMAIN run.records : tidy_raw_record(run.records[k]).unique_id = <<>>
    /\ LiveIds(db) # {}
    /\ LiveIds(sess) # {}
    /\ LiveIds(db) \ LiveIds(sess) # {}

\* the change types of the events of the entity u, in log order
TypesOf(t, u) ==
    [k \in 1..Len(SelectSeq(t.change_events, LAMBDA e : e.unique_id = u)) |->
        SelectSeq(t.change_events, LAMBDA e : e.unique_id = u)[k].change_type]

CountOf(types, type) == Cardinality({k \in DOMAIN types : types[k] = type})

\* (added, updated*, removed)* optionally followed by (added, updated*)
FollowsLifeCycle(types) ==
    /\ types # <<>> => types[1] = "added"
    /\ \A k \in 1..(Len(types) - 1) :
           IF types[k] = "removed" THEN types[k + 1] = "added"
           ELSE types[k + 1] \in {"updated", "removed"}

\* the events and the versions of the entity u agree
HistoryAgrees(t, u, types) ==
    /\ FollowsLifeCycle(types)
    /\ (LiveRowsOf(t, u) # {}) <=> (types # <<>> /\ types[Len(types)] \in {"added", "updated"})
    /\ Cardinality(RowsOf(t, u)) = CountOf(types, "added") + CountOf(types, "updated")
    /\ Cardinality(RowsOf(t, u) \ LiveRowsOf(t, u))
           = CountOf(types, "updated") + CountOf(types, "removed")

\* C31: in the stored tables and in every open session, the events of each
\* entity follow (added, updated*, removed)* (added, updated*)?; the entity
\* has a live version exactly when its latest event is added or updated, as
\* many versions as added and updated events, and as many closed versions
\* as updated and removed events
EventsFollowLifeCycle ==
    \A t \in {db, sess} :
        \A u \in EntityIds(t) \cup {t.change_events[k].unique_id : k \in DOMAIN t.change_events} :
            HistoryAgrees(t, u, TypesOf(t, u))

\* an entity has been added, updated and removed
FullLifeCycleStored ==
    \E u \in EntityIds(db) : TypesOf(db, u) = <<"added", "updated", "removed">>

\* a pass of process_snapshot.py is staged for its commit
ScriptCommitStaged == pc = "commit" /\ run.entry = "script" /\ ~run.dry_run

\* the ChangeEvents of the type with the change_date d
EventsOn(t, d, type) ==
    Cardinality({k \in DOMAIN t.change_events :
                    t.change_events[k].change_date = d /\ t.change_events[k].change_type = type})

\* the counts of the pass agree with its batch, with the live entities
\* before and after it, and with the metadata row and the events of its date
CountsAgree(stats) ==
    /\ stats.added + stats.updated + stats.unchanged = Cardinality(BatchIds)
    /\ stats.removed + stats.updated + stats.unchanged = Cardinality(LiveIds(db))
    /\ Cardinality(LiveIds(sess)) = Cardinality(LiveIds(db)) + stats.added - stats.removed
    /\ \E m \in sess.snapshot_metadata : m.snapshot_date = run.date
    /\ \A m \in sess.snapshot_metadata :
           m.snapshot_date = run.date =>
               /\ m.added_count = EventsOn(sess, run.date, "added")
               /\ m.updated_count = EventsOn(sess, run.date, "updated")
               /\ m.removed_count = EventsOn(sess, run.date, "removed")

\* the counts of a pass whose batch holds a record agree
CountsAgreeNonEmpty == (ScriptCommitStaged /\ run.records # <<>>) => CountsAgree(run.stats)

\* C32: for every pass that is committed, added + updated + unchanged is the
\* number of distinct ids of the batch, removed + updated + unchanged the
\* number of live entities before the pass, the live count after the pass
\* the count before plus added minus removed, and the metadata row of the
\* date stores the numbers of added, updated and removed events of the date
CountsConsistent == ScriptCommitStaged => CountsAgree(run.stats)

\* a pass without a record is staged while an entity is live
EmptyPassOverLive == ScriptCommitStaged /\ run.records = <<>> /\ LiveIds(db) # {}

\* ------------------------------------------------------- the full harvest
\* the telephone_no every detail page holds in the model
DetailsPhone == Str(<<"5">>)

\* the listing of a full harvest: distinct ids, each with the same category
Listings == UNION {Orders(S) : S \in SUBSET Ids}

\* scrape_all: a record for every summary, with the detail fields of the
\* ids in all_details and None for the ids whose details were not fetched
scrape_all(summaries, all_details) ==
    [k \in 1..Len(summaries) |->
        Record(summaries[k], S_A, IF summaries[k] \in all_details THEN DetailsPhone ELSE None)]

\* run_scrape_and_update with the records scrape_all returns
FullScrapePass(summaries, all_details) == ScrapePass(scrape_all(summaries, all_details))

NextFullScrape ==
    \/ \E summaries \in Listings, all_details \in SUBSET Ids : FullScrapePass(summaries, all_details)
    \/ Tick
    \/ Commit
    \/ Interrupt

SpecFullScrape == Init /\ [][NextFullScrape]_vars

\* the ids of the batch whose detail fetch failed
FailedIds == {RawKey(run.records[k]) : k \in {j \in DOMAIN run.records : run.records[j].telephone_no = None}}

ScrapePassStaged == pc = "commit" /\ run.entry = "scrape"

\* C33: the pass that follows a full harvest leaves the history of an entity
\* whose detail fetch failed as it was: its live version stays live, no
\* version of it is opened and no ChangeEvent of it is emitted
FailedFetchKeepsHistory ==
    ScrapePassStaged =>
        \A u \in FailedIds \cap LiveIds(db) :
            /\ LiveRowsOf(sess, u) = LiveRowsOf(db, u)
            /\ NewRows(u) = {}
            /\ NewEvents(u) = {}

\* the detail fetch of a live entity with a telephone failed: the pass has
\* closed its version, opened one without a telephone and logged an update
DetailsCleared ==
    /\ ScrapePassStaged
    /\ \E u \in FailedIds \cap LiveIds(db) :
           /\ \A i \in LiveRowsOf(db, u) :
                  db.assets[i].telephone # None /\ sess.assets[i].valid_until = run.date
           /\ \E i \in NewRows(u) : sess.assets[i].telephone = None
           /\ \E e \in NewEvents(u) : sess.change_events[e].change_type = "updated"

\* C34: when scrape_details_batch has returned, the errors counter has grown
\* by the number of submitted ids that are not in the result, and over all
\* the calls made so far every call is counted once, in details_fetched or
\* in errors
TallyExact ==
    scraper.batch = "returned" =>
        /\ \A u \in Workers :
               scraper.stats.errors - scraper.fetch[u].errors_at_call
                   = Cardinality(Workers) - Cardinality(scraper.results)
        /\ scraper.stats.details_fetched + scraper.stats.errors = scraper.calls

\* a batch of two ids has returned, both fetches have counted their error
\* and returned None, and the errors counter has grown by one
ErrorUpdateLost ==
    /\ scraper.batch = "returned"
    /\ Cardinality(Workers) = 2
    /\ scraper.results = {}
    /\ \A u \in Workers :
           /\ scraper.fetch[u].out = "None"
           /\ scraper.stats.errors - scraper.fetch[u].errors_at_call = 1

\* C36: in a run of import_historical_data every pass is committed at its
\* own boundary: whenever the run is between two files or past the last one,
\* the stored tables hold the versions, the change events and the
\* SnapshotMetadata rows of the passes it has completed, so that a failure
\* of a later pass leaves them stored
ImportPassesStored ==
    (run.entry = "import" /\ pc \in {"next_file", "commit"}) =>
        /\ db.assets = sess.assets
        /\ db.change_events = sess.change_events
        /\ db.snapshot_metadata = sess.snapshot_metadata

\* the run has completed the pass of its first file and is about to handle
\* the next one: the version, the event and the metadata row of the pass are
\* in the session only
CompletedPassUnstored ==
    /\ run.entry = "import"
    /\ pc = "next_file"
    /\ run.file_idx = 2
    /\ sess.snapshot_metadata # {}
    /\ sess.assets # <<>>
    /\ sess.change_events # <<>>
    /\ db = EmptyDb

\* ------------------------------------------- two background scrapes at once
\* the background tasks that POST /scrape has started; in the specification
\* of the tasks sess, pc, run and result hold one value for each task
Tasks == {1, 2}

InitTasks ==
    /\ db = EmptyDb
    /\ sess = [p \in Tasks |-> EmptyDb]
    /\ pc = [p \in Tasks |-> "idle"]
    /\ run = [p \in Tasks |-> NoRun]
    /\ result = [p \in Tasks |-> "none"]
    /\ today = 1
    /\ scraper = NewScraper

\* the task is inside its transaction: it has flushed its raw snapshots and
\* has neither committed nor rolled back
InTransaction(p) == pc[p] \in {"flushed", "commit"}

\* another task holds uncommitted raw snapshots: all of the database is
\* locked for writing (SQLite), or the rows of the same key are (a server)
DatabaseLocked(p) == \E q \in Tasks \ {p} : InTransaction(q)

RowLocked(p, added) ==
    \E q \in Tasks \ {p} :
        /\ InTransaction(q)
        /\ \E i \in 1..Len(added) : HasRaw(sess[q], run[q].date, RawKey(added[i]))

\* a unique snapshot_date that never rejects a row
CommitNeverRaises(t, snapshot_date) == FALSE

\* snapshot_metadata.snapshot_date is unique: the INSERT of the metadata row
\* raises IntegrityError when a row of the date is stored
CommitRaises(t, snapshot_date) == \E m \in t.snapshot_metadata : m.snapshot_date = snapshot_date

\* run_scrape_and_update returns, or get_session rolls back and run_scrape
\* logs the exception
TaskEnds(p, kind) ==
    /\ pc' = [pc EXCEPT ![p] = "done"]
    /\ result' = [result EXCEPT ![p] = kind]
    /\ sess' = [sess EXCEPT ![p] = EmptyDb]
    /\ run' = [run EXCEPT ![p] = [NoRun EXCEPT !.entry = "scrape", !.date = run[p].date]]
    /\ UNCHANGED <<db, today, scraper>>

\* trigger_scrape: the background task takes snapshot_date = date.today()
\* and scrapes its records; without records it returns
trigger_scrape(p, records) ==
    /\ pc[p] \in {"idle", "done"}
    /\ run' = [run EXCEPT ![p] = [NoRun EXCEPT !.entry = "scrape", !.date = today,
                                               !.records = records]]
    /\ pc' = [pc EXCEPT ![p] = IF records = <<>> THEN "done" ELSE "scraped"]
    /\ result' = [result EXCEPT ![p] = IF records = <<>> THEN "no_records" ELSE "running"]
    /\ sess' = [sess EXCEPT ![p] = EmptyDb]
    /\ UNCHANGED <<db, today, scraper>>

\* run_scrape_and_update: the query for a metadata row of the date
ScrapeCheck(p) ==
    /\ pc[p] = "scraped"
    /\ IF HasSnapshotRun(db, run[p].date) THEN TaskEnds(p, "already_scraped")
       ELSE /\ pc' = [pc EXCEPT ![p] = "checked"]
            /\ UNCHANGED <<db, sess, run, result, today, scraper>>

\* run_scrape_and_update: the raw snapshots and session.flush(); the INSERT
\* waits while a row of the same key is locked
ScrapeFlush(p) ==
    /\ pc[p] = "checked"
    /\ ~RowLocked(p, scrape_store_raw(run[p].records))
    /\ IF FlushRaises(db, scrape_store_raw(run[p].records), run[p].date)
       THEN TaskEnds(p, "exception")
       ELSE /\ WithinBounds(WithRaw(db, scrape_store_raw(run[p].records), run[p].date))
            /\ sess' = [sess EXCEPT ![p] = WithRaw(db, scrape_store_raw(run[p].records), run[p].date)]
            /\ pc' = [pc EXCEPT ![p] = "flushed"]
            /\ UNCHANGED <<db, run, result, today, scraper>>

\* run_scrape_and_update: the task has its session reconciled
ScrapeReconciled(p, done) ==
    /\ WithinBounds(done.tables)
    /\ sess' = [sess EXCEPT ![p] =
                    WithMetadata(done.tables,
                                 SnapshotMetadata(run[p].date, "scrape",
                                                  Len(run[p].records), done.stats))]
    /\ run' = [run EXCEPT ![p].stats = done.stats]
    /\ pc' = [pc EXCEPT ![p] = "commit"]
    /\ UNCHANGED <<db, result, today, scraper>>

\* run_scrape_and_update: the query for the live rows, which sees what is
\* committed by now and the task's own raw snapshots, the three loops and
\* the metadata row, all added to the session
ScrapeReconcile(p) ==
    /\ pc[p] = "flushed"
    /\ \E ord \in Orders(PassIds(db, run[p].records)) :
            ScrapeReconciled(p,
                scrape_update(WithRaw(db, scrape_store_raw(run[p].records), run[p].date),
                              run[p].records, run[p].date, ord))

\* get_session(): session.commit() flushes the versions, the events and the
\* metadata row and commits, or raises and rolls back
ScrapeCommit(p) ==
    /\ pc[p] = "commit"
    /\ IF CommitRaises(db, run[p].date) THEN TaskEnds(p, "exception")
       ELSE /\ db' = sess[p]
            /\ pc' = [pc EXCEPT ![p] = "done"]
            /\ result' = [result EXCEPT ![p] = "ok"]
            /\ run' = [run EXCEPT ![p] = [NoRun EXCEPT !.entry = "scrape", !.date = run[p].date]]
            /\ UNCHANGED <<sess, today, scraper>>

\* a write that finds the database locked until its timeout raises
\* OperationalError
ScrapeBusy(p) ==
    /\ pc[p] \in {"checked", "commit"}
    /\ DatabaseLocked(p)
    /\ TaskEnds(p, "exception")

\* the clock moves on while no task is running
TickTasks ==
    /\ \A p \in Tasks : pc[p] \in {"idle", "done"}
    /\ today < MaxDate
    /\ today' = today + 1
    /\ UNCHANGED <<db, sess, pc, run, result, scraper>>

NextTasks ==
    \/ \E p \in Tasks, records \in HarvestBatches : trigger_scrape(p, records)
    \/ \E p \in Tasks : ScrapeCheck(p)
    \/ \E p \in Tasks : ScrapeFlush(p)
    \/ \E p \in Tasks : ScrapeReconcile(p)
    \/ \E p \in Tasks : ScrapeCommit(p)
    \/ \E p \in Tasks : ScrapeBusy(p)
    \/ TickTasks

SpecTasks == InitTasks /\ [][NextTasks]_vars

\* the tasks whose pass of today's date is committed
CommittedToday == {p \in Tasks : pc[p] = "done" /\ result[p] = "ok" /\ run[p].date = today}

\* both tasks have taken a pass of today's date past the date check
BothReconcile ==
    \A p \in Tasks : run[p].date = today /\ pc[p] \in {"checked", "flushed", "commit"}

\* C35: of two passes for one snapshot date at most one commits, however
\* their steps interleave; once one has committed the date has exactly one
\* SnapshotMetadata row, the stored tables are those of the committed pass
\* alone, and every entity id has at most one live version
OneSameDatePassCommits ==
    /\ Cardinality(CommittedToday) <= 1
    /\ \A u \in EntityIds(db) : Cardinality(LiveRowsOf(db, u)) <= 1
    /\ \A p \in CommittedToday :
            /\ db = sess[p]
            /\ Cardinality({m \in db.snapshot_metadata : m.snapshot_date = today}) = 1
            /\ \A i \in DOMAIN db.change_events :
                    db.change_events[i].change_date = today =>
                        \E j \in DOMAIN sess[p].change_events :
                            sess[p].change_events[j] = db.change_events[i]

\* both tasks passed the date check before either committed; one has
\* committed and the other was rejected
SecondPassRejected ==
    \E p, q \in Tasks :
        /\ p # q
        /\ p \in CommittedToday
        /\ run[q].date = today
        /\ pc[q] = "done"
        /\ result[q] = "exception"

\* C38: normalize_phone is idempotent: a phone text that is normalized a
\* second time has the value it had after the first normalization
NormalizeIdempotent == pc = "renormalized" => run.out = run.phone

\* the second normalization has removed a 0044 that the first one left
\* behind a bracket
SecondPassStripsPrefix ==
    /\ pc = "renormalized"
    /\ run.phone = <<"0", "0", "4", "4", "2", "0", "7">>
    /\ run.out = <<"0", "2", "0", "7">>

\* the records of the batch whose tidied id is u
RecordsOf(records, u) ==
    {i \in DOMAIN records : tidy_raw_record(records[i]).unique_id = u}

\* the ids that several records of the batch share
DuplicateIds(records) ==
    {u \in {tidy_raw_record(records[i]).unique_id : i \in DOMAIN records} :
        u # <<>> /\ Cardinality(RecordsOf(records, u)) >= 2}

\* the last record of the id in batch order
LastOf(records, u) ==
    CHOOSE i \in RecordsOf(records, u) : \A j \in RecordsOf(records, u) : j <= i

\* the versions the pass of the date has opened for u, and its events for u
OpenedOn(t, u, d) == {i \in DOMAIN t.assets : t.assets[i].unique_id = u /\ t.assets[i].valid_from = d}

EventsOf(t, u, d) ==
    {i \in DOMAIN t.change_events :
        t.change_events[i].unique_id = u /\ t.change_events[i].change_date = d}

\* C39: a pass whose batch holds several records of one non-empty id handles
\* the id as one entity: it opens at most one version and writes at most one
\* ChangeEvent for the id, and a version it opens holds the tidied form of
\* the last of these records in batch order
LastDuplicateWins ==
    PassStaged =>
        \A u \in DuplicateIds(run.records) :
            /\ Cardinality(OpenedOn(sess, u, run.date)) <= 1
            /\ Cardinality(EventsOf(sess, u, run.date)) <= 1
            /\ \A i \in OpenedOn(sess, u, run.date) :
                    sess.assets[i] =
                        tidied_to_asset(tidy_raw_record(run.records[LastOf(run.records, u)]),
                                        run.date)

\* a batch with two records of one id that tidy to different categories has
\* been reconciled: one version and one event of the id are written
DuplicatesReconciled ==
    /\ PassStaged
    /\ \E u \in DuplicateIds(run.records) :
            /\ Cardinality(OpenedOn(sess, u, run.date)) = 1
            /\ Cardinality(EventsOf(sess, u, run.date)) = 1
            /\ \E i, j \in RecordsOf(run.records, u) :
                    tidy_raw_record(run.records[i]).category
                        # tidy_raw_record(run.records[j]).category

\* ------------------------------------------------- termination of a batch
\* the batch harvest when every exception comes from a request: no call
\* raises outside the try blocks
NextBatchHttp ==
    \/ \E ids \in SUBSET Ids : Submit(ids)
    \/ \E u \in Ids : WorkerStep(u)
    \/ \E u \in Ids : Collect(u)
    \/ ReturnBatch

\* every request returns or times out and every pool thread goes on running
\* its call; the loop over as_completed takes every finished future and the
\* with block of the executor is left when all are taken
BatchFairness ==
    /\ \A u \in Ids : WF_vars(WorkerStep(u)) /\ WF_vars(Collect(u))
    /\ WF_vars(ReturnBatch)

SpecBatchFair == Init /\ [][NextBatchHttp]_vars /\ BatchFairness

\* the call for u made no more than max_retries requests, and u is in the
\* result or the call returned None after it had counted an error
Settled(u) ==
    /\ scraper.fetch[u].attempt <= max_retries
    /\ Len(SelectSeq(scraper.fetch[u].trace, LAMBDA step : step.op = "get")) <= max_retries
    /\ \/ u \in scraper.results
       \/ /\ scraper.fetch[u].out = "None"
          /\ scraper.stats.errors > scraper.fetch[u].errors_at_call

====
